---- MODULE Spec2Model ----
(***************************************************************************)
(* Model of the dynamic-video-reframer track pipeline.                     *)
(*                                                                         *)
(*   Spec          PersonTrackProcessorService.run on one scene: grouping, *)
(*                 frame-by-frame linking, persistence filter and the      *)
(*                 fixed / dynamic reconstruction.                         *)
(*   SpecPipeline  ReframerPipeline.run: the three cached stages, run      *)
(*                 repeatedly against one cache.                           *)
(*   SpecUnion     calculate_fixed_box called on a list of boxes.          *)
(*                                                                         *)
(* Centers are kept doubled (2x + width, 2y + height) so that the half     *)
(* pixels of x + width / 2 stay integers.                                  *)
(***************************************************************************)
EXTENDS Integers, Sequences, FiniteSets, TLC

VARIABLES
    \* ---- PersonTrackProcessorService.run ----
    pc,                    \* position inside run
    sparse_detections,     \* argument of run
    detections_by_frame,   \* sorted dict of _group_detections_by_frame, as <<frame, dets>> pairs
    frame_pos,             \* index into sorted_frames of the frame being linked
    track_pos,             \* index i of the loop over track_ids in that frame
    active_tracks,         \* the dict active_tracks, in insertion order
    next_track_id,
    total_sampled_frames,  \* argument of run
    min_hits,
    raw_tracks,
    persistent_tracks,
    scene_start_frame,     \* argument of run
    scene_end_frame,       \* argument of run
    output_modes,          \* argument of run
    final_tracks,          \* value returned by run
    \* ---- ReframerPipeline.run ----
    p_pc,                  \* position inside ReframerPipeline.run
    cache_kind,            \* the CacheManager injected: "fs" or "noop"
    cache,                 \* the files under data/<project>/, by stage key
    video,                 \* the source media: what the external collaborators yield on it
    scene_list_data,
    scouting_data,
    face_tracks_data,
    person_tracks_data,
    final_formatted_data,
    run_result,            \* what run returned or raised
    final_results,         \* what OutputFormatterService.run returned or raised
    lookups,               \* per stage key: the file found by this run's load, if any
    invoked,               \* stage computations this run has started
    computed,              \* stage computations this run has completed
    save_calls,            \* stage keys this run has called save with
    processor_calls,       \* arguments of this run's track_processor.run calls
    runs,                  \* number of runs started on this project
    prev_run,              \* outcome of the previous run on this project
    \* ---- calculate_fixed_box ----
    u_pc,                  \* position of the call
    union_boxes,           \* argument boxes
    union_result           \* value returned

procVars == <<pc, sparse_detections, detections_by_frame, frame_pos, track_pos,
              active_tracks, next_track_id, total_sampled_frames, min_hits,
              raw_tracks, persistent_tracks, scene_start_frame, scene_end_frame,
              output_modes, final_tracks>>

pipeVars == <<p_pc, cache_kind, cache, video, scene_list_data, scouting_data,
              face_tracks_data, person_tracks_data, final_formatted_data, run_result,
              final_results, lookups, invoked, computed, save_calls, processor_calls,
              runs, prev_run>>

unionVars == <<u_pc, union_boxes, union_result>>

vars == <<procVars, pipeVars, unionVars>>

-----------------------------------------------------------------------------
(* Bounds of the model *)

MaxFrame == 3
MaxDets == 4
MaxTotal == 5
MaxRuns == 2

(* Program constants *)

\* distance_threshold_factor = 0.7, as the fraction FactorNum / FactorDen
FactorNum == 7
FactorDen == 10
\* min_persistence_ratio = 0.4, as the fraction RatioNum / RatioDen
RatioNum == 2
RatioDen == 5
\* best_det_idx = -1: no detection chosen; also stands for an absent 'match_idx' key
NoMatch == -1

\* scouting defaults: min_samples, max_samples
MinSamples == 5
MaxSamples == 20
\* OutputFormatterService: fps defaults to 30 when the video reports none
DefaultFps == 30

\* Python's None, and a variable holding the value v
None == [some |-> FALSE, value |-> <<>>]
Some(v) == [some |-> TRUE, value |-> v]
TypeError == [raised |-> "TypeError"]
UnicodeDecodeError == [raised |-> "UnicodeDecodeError"]
ValueError == [raised |-> "ValueError"]
EmptyDict == [k \in {} |-> 0]

-----------------------------------------------------------------------------
(* Input domain *)

Frames == 0 .. MaxFrame

Box(x, y, w, h) == [x |-> x, y |-> y, width |-> w, height |-> h]

\* Box(7, 0, 10, 10) lies exactly on the gate of a track at Box(0, 0, 10, 10),
\* Box(1, 2, 12, 7) inside the gates of both, Box(30, 0, 10, 10) outside all.
Boxes == { Box(0, 0, 10, 10), Box(7, 0, 10, 10), Box(1, 2, 12, 7), Box(30, 0, 10, 10) }

Confidences == {90}

Detection == [frame_number : Frames, box_pixels : Boxes, confidence : Confidences]

\* detection lists as the scouting stage builds them: in ascending frame order
RECURSIVE IsFrameOrdered(_)
IsFrameOrdered(s) ==
    \/ Len(s) <= 1
    \/ /\ s[1].frame_number <= s[2].frame_number
       /\ IsFrameOrdered(Tail(s))

RECURSIVE SeqsUpTo(_, _)
SeqsUpTo(S, n) ==
    IF n = 0 THEN { <<>> }
    ELSE LET shorter == SeqsUpTo(S, n - 1)
         IN  shorter \cup { Append(s, e) : s \in { t \in shorter : Len(t) = n - 1 }, e \in S }

DetectionLists == { s \in SeqsUpTo(Detection, MaxDets) : IsFrameOrdered(s) }

-----------------------------------------------------------------------------
(* Helpers *)

SetMin(S) == CHOOSE m \in S : \A n \in S : m <= n
SetMax(S) == CHOOSE m \in S : \A n \in S : m >= n

Range(s) == { s[i] : i \in DOMAIN s }

\* sorted(..., key=lambda x: x['frame_number']): stable insertion by frame number
RECURSIVE InsertByFrame(_, _)
InsertByFrame(sorted, d) ==
    IF sorted = <<>> THEN <<d>>
    ELSE IF sorted[Len(sorted)].frame_number <= d.frame_number
         THEN Append(sorted, d)
         ELSE Append(InsertByFrame(SubSeq(sorted, 1, Len(sorted) - 1), d), sorted[Len(sorted)])

RECURSIVE SortByFrame(_)
SortByFrame(s) ==
    IF s = <<>> THEN <<>>
    ELSE InsertByFrame(SortByFrame(SubSeq(s, 1, Len(s) - 1)), s[Len(s)])

-----------------------------------------------------------------------------
(* _group_detections_by_frame *)

RECURSIVE DetsAtFrame(_, _)
\* grouped[f]: the detections of frame f, in list order
DetsAtFrame(dets, f) ==
    IF dets = <<>> THEN <<>>
    ELSE (IF dets[1].frame_number = f THEN <<dets[1]>> ELSE <<>>) \o DetsAtFrame(Tail(dets), f)

RECURSIVE AscendingSeq(_)
AscendingSeq(S) ==
    IF S = {} THEN <<>>
    ELSE LET m == SetMin(S) IN <<m>> \o AscendingSeq(S \ {m})

\* Mutant: every detection forms a group of its own.
GroupDetectionsUngrouped(dets) ==
    [k \in DOMAIN dets |-> [frame |-> dets[k].frame_number, dets |-> <<dets[k]>>]]

GroupDetectionsByFrame(dets) ==
    LET frames == AscendingSeq({ dets[i].frame_number : i \in DOMAIN dets })
    IN  [k \in DOMAIN frames |-> [frame |-> frames[k], dets |-> DetsAtFrame(dets, frames[k])]]

-----------------------------------------------------------------------------
(* _link_detections_into_tracks *)

\* det_centers, doubled: (x + width / 2, y + height / 2) * 2
CenterTwice(box) == <<2 * box.x + box.width, 2 * box.y + box.height>>

\* det_sizes: float(width)
DetSize(box) == box.width

\* cdist, as four times the squared Euclidean distance of the two centers
DistSqTwice(c1, c2) ==
    (c1[1] - c2[1]) * (c1[1] - c2[1]) + (c1[2] - c2[2]) * (c1[2] - c2[2])

\* Mutant: a detection exactly on the gating radius is let in.
WithinGateInclusive(track, det) ==
    FactorDen * FactorDen * DistSqTwice(track.last_center, CenterTwice(det.box_pixels))
        <= 4 * FactorNum * FactorNum * track.last_size * track.last_size

\* Mutant: the size-relative gate is left out.
WithinGateUngated(track, det) == TRUE

\* distances[i, j] < track_sizes[i] * distance_threshold_factor
WithinGate(track, det) ==
    FactorDen * FactorDen * DistSqTwice(track.last_center, CenterTwice(det.box_pixels))
        < 4 * FactorNum * FactorNum * track.last_size * track.last_size

RECURSIVE PossibleFrom(_, _, _)
\* np.where(distances[i, :] < track_max_dist)[0]: 0-based indices, ascending
PossibleFrom(track, dets, j) ==
    IF j >= Len(dets) THEN <<>>
    ELSE (IF WithinGate(track, dets[j + 1]) THEN <<j>> ELSE <<>>)
         \o PossibleFrom(track, dets, j + 1)

PossibleMatches(track, dets) == PossibleFrom(track, dets, 0)

\* Mutant: a detection already taken in this frame is not recognised as taken.
ClaimedNever(tracks, det_idx) == FALSE

\* any(t.get('match_idx') == det_idx for t in active_tracks.values())
Claimed(tracks, det_idx) == \E k \in DOMAIN tracks : tracks[k].match_idx = det_idx

RECURSIVE BestScanFirstFree(_, _, _, _, _)
\* Mutant: the first free detection inside the gate is taken, whatever its distance.
BestScanFirstFree(possible, track, dets, tracks, best) ==
    IF possible = <<>> THEN best
    ELSE BestScanFirstFree(Tail(possible), track, dets, tracks,
                           IF best = NoMatch /\ ~Claimed(tracks, possible[1])
                           THEN possible[1] ELSE best)

RECURSIVE BestScanNoFallback(_, _, _, _, _)
\* Mutant: the closest detection inside the gate is settled on first, and the
\* track goes without a match when that one is already taken.
BestScanNoFallback(possible, track, dets, tracks, best) ==
    IF possible = <<>>
    THEN IF best /= NoMatch /\ Claimed(tracks, best) THEN NoMatch ELSE best
    ELSE LET det_idx == possible[1]
             d == DistSqTwice(track.last_center, CenterTwice(dets[det_idx + 1].box_pixels))
             closer == \/ best = NoMatch
                       \/ d < DistSqTwice(track.last_center,
                                          CenterTwice(dets[best + 1].box_pixels))
         IN  BestScanNoFallback(Tail(possible), track, dets, tracks,
                                IF closer THEN det_idx ELSE best)

RECURSIVE BestScan(_, _, _, _, _)
\* the loop over possible_matches; best = NoMatch stands for best_dist = inf
BestScan(possible, track, dets, tracks, best) ==
    IF possible = <<>> THEN best
    ELSE LET det_idx == possible[1]
             d == DistSqTwice(track.last_center, CenterTwice(dets[det_idx + 1].box_pixels))
             closer == \/ best = NoMatch
                       \/ d < DistSqTwice(track.last_center,
                                          CenterTwice(dets[best + 1].box_pixels))
         IN  BestScan(Tail(possible), track, dets, tracks,
                      IF closer /\ ~Claimed(tracks, det_idx) THEN det_idx ELSE best)

BestDetIdx(tracks, i, dets) ==
    BestScan(PossibleMatches(tracks[i], dets), tracks[i], dets, tracks, NoMatch)

\* lines 86-91: the track takes the chosen detection
ExtendTrack(track, det, det_idx) ==
    [track EXCEPT !.detections = Append(@, det),
                  !.last_center = CenterTwice(det.box_pixels),
                  !.last_size = DetSize(det.box_pixels),
                  !.match_idx = det_idx]

NewTrack(id, det) ==
    [track_id |-> id,
     detections |-> <<det>>,
     last_center |-> CenterTwice(det.box_pixels),
     last_size |-> DetSize(det.box_pixels),
     match_idx |-> NoMatch]

\* Mutant: no detection counts as matched when new tracks are created.
MatchedIndicesNone(tracks) == {}

\* line 93: {t['match_idx'] for t in active_tracks.values() if 'match_idx' in t}
MatchedIndices(tracks) ==
    { tracks[k].match_idx : k \in DOMAIN tracks } \ {NoMatch}

\* CPython's set object (Objects/setobject.c): an open-addressing table of a
\* power-of-two size, here a sequence whose element s + 1 is slot s; the hash
\* of a small non-negative int is the int itself
EmptySlot == -1
LinearProbes == 9
PerturbShift == 5
SetMinSize == 8

RECURSIVE Pow2(_)
Pow2(k) == IF k <= 0 THEN 1 ELSE 2 * Pow2(k - 1)

RECURSIVE FreeSlot(_, _, _)
\* set_add_entry, set_insert_clean: from slot i, up to LINEAR_PROBES following
\* slots when they fit below the mask, then i = (i * 5 + 1 + perturb) & mask
\* with perturb >>= PERTURB_SHIFT
FreeSlot(table, i, perturb) ==
    LET mask == Len(table) - 1
        probes == IF i + LinearProbes <= mask THEN LinearProbes ELSE 0
        free == { j \in i .. (i + probes) : table[j + 1] = EmptySlot }
        shifted == perturb \div Pow2(PerturbShift)
    IN  IF free /= {} THEN SetMin(free)
        ELSE FreeSlot(table, (i * 5 + 1 + shifted) % (mask + 1), shifted)

SetInsert(table, h) == [table EXCEPT ![FreeSlot(table, h % Len(table), h) + 1] = h]

RECURSIVE SetNewSize(_, _)
\* set_table_resize: the smallest power of two above minused, at least 8
SetNewSize(size, minused) == IF size > minused THEN size ELSE SetNewSize(2 * size, minused)

\* iteration runs over the slots in ascending order
SetIteration(table) == SelectSeq(table, LAMBDA h : h /= EmptySlot)

RECURSIVE SetReinsert(_, _, _, _)
\* set_table_resize: the entries lo .. hi of the old table's iteration go to
\* the new table in that order; the range is halved, and the first half
\* worked out before the second is begun, to keep the evaluation flat
SetReinsert(new, entries, lo, hi) ==
    IF lo > hi THEN new
    ELSE IF lo = hi THEN SetInsert(new, entries[lo])
    ELSE LET first == SetReinsert(new, entries, lo, (lo + hi) \div 2)
         IN  IF Len(first) = Len(new)
             THEN SetReinsert(first, entries, (lo + hi) \div 2 + 1, hi)
             ELSE first

SetResize(table, minused) ==
    SetReinsert([k \in 1 .. SetNewSize(SetMinSize, minused) |-> EmptySlot],
                SetIteration(table), 1, Len(SetIteration(table)))

\* set_add_entry: the table grows once it is three fifths full
SetAdd(table, h) ==
    LET t == SetInsert(table, h)
        fill == Cardinality({ k \in DOMAIN t : t[k] /= EmptySlot })
    IN  IF fill * 5 < (Len(t) - 1) * 3 THEN t
        ELSE SetResize(t, IF fill > 50000 THEN fill * 2 ELSE fill * 4)

RECURSIVE SetAddAll(_, _, _, _)
\* the keys lo .. hi are added one after the other
SetAddAll(table, keys, lo, hi) ==
    IF lo > hi THEN table
    ELSE IF lo = hi THEN SetAdd(table, keys[lo])
    ELSE LET first == SetAddAll(table, keys, lo, (lo + hi) \div 2)
         IN  IF Len(first) >= Len(table)
             THEN SetAddAll(first, keys, (lo + hi) \div 2 + 1, hi)
             ELSE first

\* line 94: the order in which the loop meets
\* set(range(len(current_detections))) - matched_indices.  set(range(n)) holds
\* k in slot k.  set_difference copies it and discards the matched indices
\* when n >> 2 exceeds their number, which leaves the slots as they are;
\* otherwise it adds the unmatched indices, in slot order, to a new set.
UnmatchedOrder(matched, n) ==
    LET ascending == SelectSeq([k \in 1 .. n |-> k - 1], LAMBDA k : k \notin matched)
    IN  IF n \div 4 > Cardinality(matched) THEN ascending
        ELSE SetIteration(SetAddAll([k \in 1 .. SetMinSize |-> EmptySlot], ascending,
                                    1, Len(ascending)))

RECURSIVE SpawnFrom(_, _, _, _, _)
\* lines 94-101: every unmatched detection seeds a new track, in the order of
\* the set's iteration; j counts the indices already met
SpawnFrom(tracks, matched, dets, j, id) ==
    LET order == UnmatchedOrder(matched, Len(dets))
    IN  IF j >= Len(order) THEN tracks
        ELSE SpawnFrom(Append(tracks, NewTrack(id, dets[order[j + 1] + 1])),
                       matched, dets, j + 1, id + 1)

\* Mutant: a track that took no detection in the frame is dropped.
ClearMatchesDropStale(tracks) ==
    LET kept == SelectSeq(tracks, LAMBDA t :
                    t.detections[Len(t.detections)].frame_number
                        = detections_by_frame[frame_pos].frame)
    IN  [k \in DOMAIN kept |-> [kept[k] EXCEPT !.match_idx = NoMatch]]

\* lines 103-104: track.pop('match_idx', None)
ClearMatches(tracks) == [k \in DOMAIN tracks |-> [tracks[k] EXCEPT !.match_idx = NoMatch]]

-----------------------------------------------------------------------------
(* run, line 43, and _filter_tracks *)

\* np.ceil(total_sampled_frames * self.min_persistence_ratio)
MinHits(total) == (total * RatioNum + RatioDen - 1) \div RatioDen

\* Mutant: the boundary case len == min_hits is dropped.
IsPersistentStrict(track, hits) == Len(track.detections) > hits

\* len(track['detections']) >= min_hits
IsPersistent(track, hits) == Len(track.detections) >= hits

\* Mutant: the surviving tracks come out last-created first.
FilterTracksReversed(tracks, hits) ==
    LET kept == SelectSeq(tracks, LAMBDA t : Len(t.detections) >= hits)
    IN  [k \in DOMAIN kept |-> kept[Len(kept) + 1 - k]]

RECURSIVE FilterTracks(_, _)
FilterTracks(tracks, hits) ==
    IF tracks = <<>> THEN <<>>
    ELSE (IF IsPersistent(tracks[1], hits) THEN <<tracks[1]>> ELSE <<>>)
         \o FilterTracks(Tail(tracks), hits)

-----------------------------------------------------------------------------
(* calculate_fixed_box *)

\* Mutant: an empty list yields a box without area at the origin.
calculate_fixed_box_zero(boxes) ==
    IF boxes = <<>> THEN [x |-> 0, y |-> 0, width |-> 0, height |-> 0]
    ELSE [x |-> SetMin({ boxes[i].x : i \in DOMAIN boxes }),
          y |-> SetMin({ boxes[i].y : i \in DOMAIN boxes }),
          width |-> SetMax({ boxes[i].x + boxes[i].width : i \in DOMAIN boxes })
                    - SetMin({ boxes[i].x : i \in DOMAIN boxes }),
          height |-> SetMax({ boxes[i].y + boxes[i].height : i \in DOMAIN boxes })
                     - SetMin({ boxes[i].y : i \in DOMAIN boxes })]

\* Mutant: the union takes the widest and the tallest box as its size.
calculate_fixed_box_widest(boxes) ==
    IF boxes = <<>> THEN EmptyDict
    ELSE [x |-> SetMin({ boxes[i].x : i \in DOMAIN boxes }),
          y |-> SetMin({ boxes[i].y : i \in DOMAIN boxes }),
          width |-> SetMax({ boxes[i].width : i \in DOMAIN boxes }),
          height |-> SetMax({ boxes[i].height : i \in DOMAIN boxes })]

calculate_fixed_box(boxes) ==
    IF boxes = <<>> THEN EmptyDict
    ELSE LET x_min == SetMin({ boxes[i].x : i \in DOMAIN boxes })
             y_min == SetMin({ boxes[i].y : i \in DOMAIN boxes })
             x_max == SetMax({ boxes[i].x + boxes[i].width : i \in DOMAIN boxes })
             y_max == SetMax({ boxes[i].y + boxes[i].height : i \in DOMAIN boxes })
         IN  [x |-> x_min, y |-> y_min, width |-> x_max - x_min, height |-> y_max - y_min]

\* lists of boxes to call calculate_fixed_box on: the example of the
\* documentation (two overlapping squares), a box inside them, boxes reaching
\* beyond them on one side each, and a box without area
UnionBoxes ==
    { Box(0, 0, 10, 10), Box(5, 5, 10, 10), Box(2, 3, 4, 4), Box(12, 1, 2, 20),
      Box(1, 12, 20, 2), Box(3, 3, 0, 0) }

BoxLists == SeqsUpTo(UnionBoxes, MaxDets)

InitUnion ==
    /\ u_pc = "call"
    /\ union_boxes \in BoxLists
    /\ union_result = None
    /\ pc = "off"
    /\ sparse_detections = <<>>
    /\ detections_by_frame = <<>>
    /\ frame_pos = 1
    /\ track_pos = 1
    /\ active_tracks = <<>>
    /\ next_track_id = 0
    /\ total_sampled_frames = None
    /\ min_hits = None
    /\ raw_tracks = None
    /\ persistent_tracks = None
    /\ scene_start_frame = 0
    /\ scene_end_frame = 0
    /\ output_modes = None
    /\ final_tracks = None
    /\ p_pc = "off"
    /\ cache_kind = None
    /\ cache = None
    /\ video = None
    /\ scene_list_data = None
    /\ scouting_data = None
    /\ face_tracks_data = None
    /\ person_tracks_data = None
    /\ final_formatted_data = None
    /\ run_result = None
    /\ final_results = None
    /\ lookups = None
    /\ invoked = None
    /\ computed = None
    /\ save_calls = None
    /\ processor_calls = None
    /\ runs = 0
    /\ prev_run = None

\* the call returns; no path of the function raises on a list of boxes
FixedBoxCall ==
    /\ u_pc = "call"
    /\ union_result' = Some(calculate_fixed_box(union_boxes))
    /\ u_pc' = "returned"
    /\ UNCHANGED union_boxes
    /\ UNCHANGED procVars
    /\ UNCHANGED pipeVars

NextUnion == FixedBoxCall

SpecUnion == InitUnion /\ [][NextUnion]_vars

-----------------------------------------------------------------------------
(* _process_final_tracks *)

\* The inputs <<d, k, v0, v1>>, among segment lengths d <= 5 and the numbers
\* that occur in Boxes, on which the double (1 - k/d) * v0 + (k/d) * v1 falls
\* just below the integer that the exact blend is, so that int() yields one less.
FloatShortfall ==
    { <<3, 2, 1, 7>>, <<3, 2, 1, 10>>, <<5, 2, 12, 2>>, <<5, 3, 2, 12>>,
      <<5, 4, 10, 0>>, <<5, 4, 12, 2>>, <<5, 4, 30, 0>>, <<5, 4, 30, 10>> }

\* Mutant: the blend is rounded to the nearest integer.
BlendRounded(d, k, v0, v1) == (2 * ((d - k) * v0 + k * v1) + d) \div (2 * d)

\* Mutant: the two weights are exchanged.
BlendSwapped(d, k, v0, v1) == (k * v0 + (d - k) * v1) \div d

\* int((1 - alpha) * v0 + alpha * v1), alpha = k / d, for v0, v1 >= 0
Blend(d, k, v0, v1) ==
    ((d - k) * v0 + k * v1) \div d - (IF <<d, k, v0, v1>> \in FloatShortfall THEN 1 ELSE 0)

\* lines 132-137: the entry of frame_num between start_det and end_det
InterpolatedEntry(start_det, end_det, frame_num) ==
    LET d == end_det.frame_number - start_det.frame_number
        k == frame_num - start_det.frame_number
        b0 == start_det.box_pixels
        b1 == end_det.box_pixels
    IN  [frame_number |-> frame_num,
         box_pixels |-> [x |-> Blend(d, k, b0.x, b1.x),
                         y |-> Blend(d, k, b0.y, b1.y),
                         width |-> Blend(d, k, b0.width, b1.width),
                         height |-> Blend(d, k, b0.height, b1.height)]]

\* lines 131-137: the entries of one segment, ascending
SegmentEntries(start_det, end_det) ==
    LET d == end_det.frame_number - start_det.frame_number
    IN  [n \in 1 .. (IF d > 0 THEN d ELSE 0) |->
            InterpolatedEntry(start_det, end_det, start_det.frame_number + n - 1)]

RECURSIVE InterpolateFrom(_, _)
\* lines 127-137: for j in range(len(measured_detections) - 1)
InterpolateFrom(measured, j) ==
    IF j >= Len(measured) THEN <<>>
    ELSE SegmentEntries(measured[j], measured[j + 1]) \o InterpolateFrom(measured, j + 1)

\* Mutant: the held box drifts by a pixel for each frame of the range.
HeldEntriesDrifting(det, lo, hi) ==
    [n \in 1 .. (IF hi >= lo THEN hi - lo + 1 ELSE 0) |->
        [frame_number |-> lo + n - 1,
         box_pixels |-> [det.box_pixels EXCEPT !.x = @ + n - 1]]]

\* Mutant: the held range runs one frame too far.
HeldEntriesOneMore(det, lo, hi) ==
    [n \in 1 .. (IF hi + 1 >= lo THEN hi - lo + 2 ELSE 0) |->
        [frame_number |-> lo + n - 1, box_pixels |-> det.box_pixels]]

\* lines 142-145: {"frame_number": frame_num, "box_pixels": det['box_pixels']}
\* for frame_num in lo .. hi
HeldEntries(det, lo, hi) ==
    [n \in 1 .. (IF hi >= lo THEN hi - lo + 1 ELSE 0) |->
        [frame_number |-> lo + n - 1, box_pixels |-> det.box_pixels]]

\* lines 124-147
DynamicTrack(measured, start_frame, end_frame) ==
    LET first_det == measured[1]
        last_det == measured[Len(measured)]
    IN  SortByFrame(InterpolateFrom(measured, 1)
                    \o <<last_det>>
                    \o HeldEntries(first_det, start_frame, first_det.frame_number - 1)
                    \o HeldEntries(last_det, last_det.frame_number + 1, end_frame))

MeasuredBoxes(measured) == [n \in DOMAIN measured |-> measured[n].box_pixels]

\* lines 116-149: the output of the i-th surviving track, "PERSON_{i}" being i
TrackOutput(i, track, start_frame, end_frame, modes) ==
    LET measured == SortByFrame(track.detections)
    IN  [track_id |-> i]
        @@ (IF "fixed" \in modes
            THEN [fixed_box_pixels |-> calculate_fixed_box(MeasuredBoxes(measured))]
            ELSE EmptyDict)
        @@ (IF "dynamic" \in modes
            THEN [dynamic_track |-> DynamicTrack(measured, start_frame, end_frame)]
            ELSE EmptyDict)

ProcessFinalTracks(tracks, start_frame, end_frame, modes) ==
    [i \in DOMAIN tracks |-> TrackOutput(i, tracks[i], start_frame, end_frame, modes)]

-----------------------------------------------------------------------------
(* PersonTrackProcessorService.run, step by step *)

OutputModes == { {"fixed"}, {"dynamic"}, {"fixed", "dynamic"}, {} }

InScene(dets, s, e) ==
    \A i \in DOMAIN dets : s <= dets[i].frame_number /\ dets[i].frame_number <= e

CurrentDetections == detections_by_frame[frame_pos].dets

\* calculate_fixed_box is not called on its own in this specification
UnionOff ==
    /\ u_pc = "off"
    /\ union_boxes = <<>>
    /\ union_result = None

\* the pipeline is not part of this specification
PipelineOff ==
    /\ p_pc = "off"
    /\ cache_kind = None
    /\ cache = None
    /\ video = None
    /\ scene_list_data = None
    /\ scouting_data = None
    /\ face_tracks_data = None
    /\ person_tracks_data = None
    /\ final_formatted_data = None
    /\ run_result = None
    /\ final_results = None
    /\ lookups = None
    /\ invoked = None
    /\ computed = None
    /\ save_calls = None
    /\ processor_calls = None
    /\ runs = 0
    /\ prev_run = None

Init ==
    /\ pc = "start"
    /\ scene_start_frame \in Frames
    /\ scene_end_frame \in scene_start_frame .. MaxFrame
    /\ sparse_detections \in
         { s \in DetectionLists : InScene(s, scene_start_frame, scene_end_frame) }
    /\ detections_by_frame = <<>>
    /\ frame_pos = 1
    /\ track_pos = 1
    /\ active_tracks = <<>>
    /\ next_track_id = 0
    /\ total_sampled_frames = None
    /\ min_hits = None
    /\ raw_tracks = None
    /\ persistent_tracks = None
    /\ output_modes = None
    /\ final_tracks = None
    /\ PipelineOff
    /\ UnionOff

\* lines 37-38: no detections, return []
ReturnEmpty ==
    /\ pc = "start"
    /\ sparse_detections = <<>>
    /\ final_tracks' = <<>>
    /\ pc' = "done"
    /\ UNCHANGED <<sparse_detections, detections_by_frame, frame_pos, track_pos,
                   active_tracks, next_track_id, total_sampled_frames, min_hits,
                   raw_tracks, persistent_tracks, scene_start_frame, scene_end_frame,
                   output_modes>>
    /\ UNCHANGED pipeVars
    /\ UNCHANGED unionVars

\* line 40
GroupDetections ==
    /\ pc = "start"
    /\ sparse_detections /= <<>>
    /\ detections_by_frame' = GroupDetectionsByFrame(sparse_detections)
    /\ pc' = "link"
    /\ UNCHANGED <<sparse_detections, frame_pos, track_pos, active_tracks, next_track_id,
                   total_sampled_frames, min_hits, raw_tracks, persistent_tracks,
                   scene_start_frame, scene_end_frame, output_modes, final_tracks>>
    /\ UNCHANGED pipeVars
    /\ UNCHANGED unionVars

\* lines 77-91: one pass of the loop over track_ids
MatchTrack ==
    /\ pc = "link"
    /\ track_pos <= Len(active_tracks)
    /\ LET best == BestDetIdx(active_tracks, track_pos, CurrentDetections)
       IN  active_tracks' =
             IF best /= NoMatch
             THEN [active_tracks EXCEPT ![track_pos] =
                      ExtendTrack(@, CurrentDetections[best + 1], best)]
             ELSE active_tracks
    /\ track_pos' = track_pos + 1
    /\ UNCHANGED <<pc, sparse_detections, detections_by_frame, frame_pos, next_track_id,
                   total_sampled_frames, min_hits, raw_tracks, persistent_tracks,
                   scene_start_frame, scene_end_frame, output_modes, final_tracks>>
    /\ UNCHANGED pipeVars
    /\ UNCHANGED unionVars

\* lines 93-104, and line 106 after the last frame
SpawnTracks ==
    /\ pc = "link"
    /\ track_pos > Len(active_tracks)
    /\ LET matched == MatchedIndices(active_tracks)
           spawned == SpawnFrom(active_tracks, matched, CurrentDetections, 0, next_track_id)
           cleared == ClearMatches(spawned)
       IN  /\ active_tracks' = cleared
           /\ next_track_id' = next_track_id + (Len(spawned) - Len(active_tracks))
           /\ IF frame_pos < Len(detections_by_frame)
              THEN /\ frame_pos' = frame_pos + 1
                   /\ track_pos' = 1
                   /\ UNCHANGED <<pc, raw_tracks>>
              ELSE /\ raw_tracks' = cleared
                   /\ pc' = "filter"
                   /\ UNCHANGED <<frame_pos, track_pos>>
    /\ UNCHANGED <<sparse_detections, detections_by_frame, total_sampled_frames, min_hits,
                   persistent_tracks, scene_start_frame, scene_end_frame, output_modes,
                   final_tracks>>
    /\ UNCHANGED pipeVars
    /\ UNCHANGED unionVars

\* the frames sampled in the scene: at least those that carry a detection, at
\* most every frame of the scene
SampledFrameCounts ==
    { t \in 1 .. MaxTotal :
        /\ t >= Len(detections_by_frame)
        /\ t <= scene_end_frame - scene_start_frame + 1 }

\* lines 43-44
Filter ==
    /\ pc = "filter"
    /\ \E total \in SampledFrameCounts :
         /\ total_sampled_frames' = total
         /\ min_hits' = MinHits(total)
         /\ persistent_tracks' = FilterTracks(raw_tracks, MinHits(total))
    /\ pc' = "final"
    /\ UNCHANGED <<sparse_detections, detections_by_frame, frame_pos, track_pos,
                   active_tracks, next_track_id, raw_tracks, scene_start_frame,
                   scene_end_frame, output_modes, final_tracks>>
    /\ UNCHANGED pipeVars
    /\ UNCHANGED unionVars

\* lines 47-48
ProcessFinal ==
    /\ pc = "final"
    /\ \E modes \in OutputModes :
         /\ output_modes' = modes
         /\ final_tracks' = ProcessFinalTracks(persistent_tracks, scene_start_frame,
                                               scene_end_frame, modes)
    /\ pc' = "done"
    /\ UNCHANGED <<sparse_detections, detections_by_frame, frame_pos, track_pos,
                   active_tracks, next_track_id, total_sampled_frames, min_hits,
                   raw_tracks, persistent_tracks, scene_start_frame, scene_end_frame>>
    /\ UNCHANGED pipeVars
    /\ UNCHANGED unionVars

Next ==
    \/ ReturnEmpty
    \/ GroupDetections
    \/ MatchTrack
    \/ SpawnTracks
    \/ Filter
    \/ ProcessFinal

Spec == Init /\ [][Next]_vars

-----------------------------------------------------------------------------
(* CacheManager: FileSystemCacheManager and NoOpCacheManager *)

\* _initialize_paths: the four stage files of a project
Keys == {"scenes", "scouting", "face_tracks", "person_tracks"}

\* what a stage file can be: missing, text that is not parseable as JSON, bytes
\* that are not text in the encoding open() reads with, or JSON text
Absent == [file |-> "absent"]
Corrupt == [file |-> "corrupt"]
Undecodable == [file |-> "undecodable"]

\* json.dump: lists, dicts with string keys, ints and floats are written as such
JsonDump(data) == [file |-> "json", json |-> data]

\* json.load of a file written by JsonDump
JsonLoad(entry) == entry.json

\* load: None on a missing file, on a JSONDecodeError or IOError, and always
\* for the no-op manager
CacheLoad(kind, files, key) ==
    IF kind = "fs" /\ files[key].file = "json" THEN Some(JsonLoad(files[key])) ELSE None

\* load, lines 46-51: reading bytes that do not decode raises UnicodeDecodeError,
\* a ValueError that is neither json.JSONDecodeError nor IOError, so it leaves load
LoadRaises(kind, files, key) == kind = "fs" /\ files[key].file = "undecodable"

\* how a save can end: the file written; an IOError before the file was opened;
\* an IOError after it was opened for writing, which leaves it cut short
SaveOutcomes == {"written", "untouched", "truncated"}

\* Mutant: the scouting file is written without the person detections.
CacheSaveDropsPersons(kind, files, key, data, outcome) ==
    IF kind = "noop" \/ outcome = "untouched" THEN files
    ELSE IF outcome = "written"
         THEN [files EXCEPT ![key] =
                  IF key = "scouting"
                  THEN JsonDump([faces |-> data.faces, persons |-> <<>>])
                  ELSE JsonDump(data)]
    ELSE [files EXCEPT ![key] = Corrupt]

\* save: IOError is logged and swallowed; the no-op manager does nothing
CacheSave(kind, files, key, data, outcome) ==
    IF kind = "noop" \/ outcome = "untouched" THEN files
    ELSE IF outcome = "written" THEN [files EXCEPT ![key] = JsonDump(data)]
    ELSE [files EXCEPT ![key] = Corrupt]

\* Python truth value of a loaded or computed value: None, [] and {} are false
Truthy(v) == v.some /\ v.value /= <<>>

\* dict.get(key, default)
Get(d, key, default) == IF key \in DOMAIN d THEN d[key] ELSE default

-----------------------------------------------------------------------------
(* The source media and the external collaborators run on it *)

Scene(s, e) == [start_frame |-> s, end_frame |-> e]

Found(box) == [box_pixels |-> box, confidence |-> 90]

NothingFound == [f \in Frames |-> <<>>]

\* the scenes PySceneDetect finds in the media: the cuts it reports, or the
\* whole video as one scene when it reports none
SceneLists == { <<Scene(0, MaxFrame)>>, <<Scene(0, 1), Scene(2, MaxFrame)>> }

\* what MediaPipe Pose makes of each frame: at most one person
PersonFindings ==
    { NothingFound,
      [f \in Frames |-> IF f = 0 THEN <<Found(Box(0, 0, 10, 10))>>
                        ELSE IF f = 2 THEN <<Found(Box(1, 2, 12, 7))>>
                        ELSE <<>>] }

\* what MediaPipe FaceDetection makes of each frame: two faces in frame 1, one
\* of them seen again in the last frame
FaceFindings ==
    { NothingFound,
      [f \in Frames |-> IF f = 1 THEN <<Found(Box(7, 0, 10, 10)), Found(Box(30, 0, 10, 10))>>
                        ELSE IF f = MaxFrame THEN <<Found(Box(7, 0, 10, 10))>>
                        ELSE <<>>] }

\* detection_fails: PySceneDetect raises on the media (it cannot open or decode it)
\* face_detector_fails, person_detector_fails: the MediaPipe model cannot be
\* set up when the service is constructed. What a model that was never set up
\* would have found is of no effect, so one content stands for all.
Videos ==
    { v \in [scenes : SceneLists, detection_fails : BOOLEAN, persons : PersonFindings,
             faces : FaceFindings, face_detector_fails : BOOLEAN,
             person_detector_fails : BOOLEAN, unreadable : { {}, {0} }, fps : {2},
             width : {40}, height : {20}] :
        /\ v.detection_fails => v.scenes = <<Scene(0, MaxFrame)>>
        /\ v.face_detector_fails => v.faces /= NothingFound
        /\ v.person_detector_fails => v.persons /= NothingFound }

\* FaceDetectorService: __init__ (lines 27-35) catches the exception of the
\* model's construction and leaves face_detector None; run (lines 49-51) then
\* logs and returns [] for every frame
FaceDetectorRun(v, frame) == IF v.face_detector_fails THEN <<>> ELSE v.faces[frame]

\* PersonDetectorService: __init__ (lines 28-36) and run (lines 51-53), likewise
PersonDetectorRun(v, frame) == IF v.person_detector_fails THEN <<>> ELSE v.persons[frame]

\* SceneDetectorService.run: any exception is logged and answered with []
SceneDetectorRun(v) == IF v.detection_fails THEN <<>> ELSE v.scenes

\* lines 126-131
TotalSampledFrames(scene, fps) ==
    LET duration_frames == scene.end_frame - scene.start_frame
        num_samples == IF fps > 0 THEN (duration_frames + fps - 1) \div fps ELSE 0
        capped == IF num_samples < MaxSamples THEN num_samples ELSE MaxSamples
        final_sample_count == IF MinSamples > capped THEN MinSamples ELSE capped
    IN  IF final_sample_count < duration_frames + 1 THEN final_sample_count
        ELSE duration_frames + 1

\* A double carries MantissaBits binary places below its leading one.
MantissaBits == 52

RECURSIVE FloorLog2(_, _)
\* the largest e with den * 2^e <= num, for num >= den >= 1
FloorLog2(num, den) == IF 2 * den > num THEN 0 ELSE 1 + FloorLog2(num, 2 * den)

RECURSIVE DoubledMod(_, _, _)
\* (x * 2^k) mod m
DoubledMod(x, k, m) == IF k = 0 THEN x % m ELSE DoubledMod((2 * x) % m, k - 1, m)

\* num / den rounded to the nearest integer, a tie going to the even one
HalfEven(num, den) ==
    LET k == num \div den
        r == num % den
    IN  IF 2 * r > den \/ (2 * r = den /\ k % 2 = 1) THEN k + 1 ELSE k

\* the doubles just below the integer M >= 1 lie 2^(SpacingBelow(M) - 52) apart
SpacingBelow(M) ==
    LET E == FloorLog2(M, 1) IN IF M = Pow2(E) THEN E - 1 ELSE E

\* np.linspace computes i * (delta / div) + start in doubles and floors it.
\* Where the exact value is not an integer the floor is the exact one.  Where
\* it is one, M, the result is M - 1 if the double ends below M: the quotient
\* delta / div was rounded down (remainder rem of the division carried to 53
\* bits), the product with i was rounded to k spacings below i * delta / div,
\* and adding start left j spacings below M.
LinspaceShortfall(start, delta, div, i) ==
    IF i = 0 \/ (i * delta) % div /= 0 THEN 0
    ELSE LET e == FloorLog2(delta, div)
             rem == DoubledMod(delta, MantissaBits - e, div)
             Mp == (i * delta) \div div
             Ep == SpacingBelow(Mp)
             k == IF e >= Ep THEN HalfEven(i * rem * Pow2(e - Ep), div)
                  ELSE HalfEven(i * rem, div * Pow2(Ep - e))
             Fp == SpacingBelow(Mp + start)
         IN  IF rem = 0 \/ 2 * rem > div THEN 0
             ELSE IF k = 0 THEN 0
             ELSE IF Fp - Ep >= 3 THEN 0
             ELSE IF HalfEven(k, Pow2(Fp - Ep)) >= 1 THEN 1 ELSE 0

\* np.linspace raises ValueError for a negative number of samples
LinspaceRaises(n) == n < 0

\* np.linspace(start_frame, end_frame, num=n, dtype=int), n >= 0: the last
\* sample is set to end_frame, the others are floor(i * step + start_frame)
FramesToSample(scene, n) ==
    [i \in 1 .. n |->
        IF n = 1 THEN scene.start_frame
        ELSE IF i = n THEN scene.end_frame
        ELSE scene.start_frame
             + ((i - 1) * (scene.end_frame - scene.start_frame)) \div (n - 1)
             - LinspaceShortfall(scene.start_frame, scene.end_frame - scene.start_frame,
                                 n - 1, i - 1)]

\* lines 141-147: the detections of one frame, stamped with frame_number
Stamped(found, frame_idx) ==
    [n \in DOMAIN found |->
        [frame_number |-> frame_idx, box_pixels |-> found[n].box_pixels,
         confidence |-> found[n].confidence]]

RECURSIVE ScoutFrames(_, _, _, _)
\* lines 135-147 for one subject type: frames that cannot be read are skipped
ScoutFrames(findings, unreadable, frames, i) ==
    IF i > Len(frames) THEN <<>>
    ELSE (IF frames[i] \in unreadable THEN <<>> ELSE Stamped(findings[frames[i]], frames[i]))
         \o ScoutFrames(findings, unreadable, frames, i + 1)

RECURSIVE ScoutScenes(_, _, _, _, _)
ScoutScenes(findings, unreadable, fps, scenes, i) ==
    IF i > Len(scenes) THEN <<>>
    ELSE ScoutFrames(findings, unreadable,
                     FramesToSample(scenes[i], TotalSampledFrames(scenes[i], fps)), 1)
         \o ScoutScenes(findings, unreadable, fps, scenes, i + 1)

\* line 133: the loop over the scenes meets a scene for which linspace raises
ScoutingRaises(v, scenes) ==
    \E i \in DOMAIN scenes : LinspaceRaises(TotalSampledFrames(scenes[i], v.fps))

\* lines 114-150
RunScouting(v, scenes) ==
    [faces |-> ScoutScenes([f \in Frames |-> FaceDetectorRun(v, f)],
                           v.unreadable, v.fps, scenes, 1),
     persons |-> ScoutScenes([f \in Frames |-> PersonDetectorRun(v, f)],
                             v.unreadable, v.fps, scenes, 1)]

-----------------------------------------------------------------------------
(* _generate_tracks_for_type *)

\* config.get('output', {}).get('modes', ['fixed'])
ConfiguredModes == {"fixed"}

\* Mutant: the detections are handed over unfiltered.
DetectionsInSceneAll(raw, scene) == raw

RECURSIVE DetectionsInScene(_, _)
\* [d for d in raw_detections if start_frame <= d['frame_number'] <= end_frame]
DetectionsInScene(raw, scene) ==
    IF raw = <<>> THEN <<>>
    ELSE (IF scene.start_frame <= raw[1].frame_number /\ raw[1].frame_number <= scene.end_frame
          THEN <<raw[1]>> ELSE <<>>)
         \o DetectionsInScene(Tail(raw), scene)

\* line 188: the positional arguments of track_processor.run
RunCallArguments(dets, scene, modes) == <<dets, scene.start_frame, scene.end_frame, modes>>

\* PersonTrackProcessorService.run, line 35: its parameters, none with a default
PersonRunParameters ==
    <<"sparse_detections", "scene_start_frame", "scene_end_frame", "total_sampled_frames",
      "output_modes">>

\* Python binds positional arguments to parameters one to one; a call with
\* fewer arguments than required parameters raises TypeError before the body runs
BindsTo(arguments, parameters) == Len(arguments) = Len(parameters)

RECURSIVE MatchTracksFrom(_, _, _)
\* the loop over track_ids in one frame, from the track at position i on
MatchTracksFrom(tracks, dets, i) ==
    IF i > Len(tracks) THEN tracks
    ELSE LET best == BestDetIdx(tracks, i, dets)
         IN  MatchTracksFrom(IF best /= NoMatch
                             THEN [tracks EXCEPT ![i] = ExtendTrack(@, dets[best + 1], best)]
                             ELSE tracks,
                             dets, i + 1)

\* one frame of the linker: the tracks are matched, every unmatched detection
\* starts a track, and the marks of the frame are cleared
LinkFrame(tracks, dets) ==
    LET matched == MatchTracksFrom(tracks, dets, 1)
    IN  ClearMatches(SpawnFrom(matched, MatchedIndices(matched), dets, 0, Len(matched)))

RECURSIVE LinkFrom(_, _, _)
LinkFrom(tracks, by_frame, n) ==
    IF n > Len(by_frame) THEN tracks
    ELSE LinkFrom(LinkFrame(tracks, by_frame[n].dets), by_frame, n + 1)

\* the linker as one function of the grouped detections
LinkDetectionsIntoTracks(by_frame) == LinkFrom(<<>>, by_frame, 1)

\* the count of distinct frames sampled in a scene: what the persistence
\* filter measures a track against. The call of line 188 does not hand it
\* over; scouting fixes it from the scene and the frame rate of the media.
DistinctSampledFrames(start_frame, end_frame) ==
    LET scene == Scene(start_frame, end_frame)
    IN  Cardinality(Range(FramesToSample(scene, TotalSampledFrames(scene, video.fps))))

\* FaceTrackProcessorService.run: the faces of a scene are linked into tracks,
\* the tracks seen in too few of the sampled frames are dropped, and each
\* survivor is numbered and given its fixed box and its dynamic track as the
\* modes ask; no detection, no track
FaceProcessorRun(dets, start_frame, end_frame, modes) ==
    IF dets = <<>> THEN <<>>
    ELSE ProcessFinalTracks(
             FilterTracks(LinkDetectionsIntoTracks(GroupDetectionsByFrame(dets)),
                          MinHits(DistinctSampledFrames(start_frame, end_frame))),
             start_frame, end_frame, modes)

\* lines 189-190: track['scene_number'] = i + 1, scenes counted from 0
Numbered(tracks, scene_number) ==
    [n \in DOMAIN tracks |-> [scene_number |-> scene_number] @@ tracks[n]]

RECURSIVE GenerateFaceTracks(_, _, _, _)
GenerateFaceTracks(raw, scenes, modes, i) ==
    IF i > Len(scenes) THEN <<>>
    ELSE Numbered(FaceProcessorRun(DetectionsInScene(raw, scenes[i]),
                                   scenes[i].start_frame, scenes[i].end_frame, modes), i)
         \o GenerateFaceTracks(raw, scenes, modes, i + 1)

\* the calls that _generate_tracks_for_type makes for the scenes first .. last
ProcessorCalls(processor, raw, scenes, modes, first, last) ==
    [n \in 1 .. (last - first + 1) |->
        [processor |-> processor,
         arguments |-> RunCallArguments(DetectionsInScene(raw, scenes[first + n - 1]),
                                        scenes[first + n - 1], modes)]]

-----------------------------------------------------------------------------
(* OutputFormatterService *)

\* a quotient, kept as numerator and denominator
Ratio(n, d) == <<n, d>>

FormatBox(box, w, h) ==
    IF {"x", "y", "width", "height"} \subseteq DOMAIN box
    THEN [x_norm |-> Ratio(box.x, w), y_norm |-> Ratio(box.y, h),
          width_norm |-> Ratio(box.width, w), height_norm |-> Ratio(box.height, h)]
    ELSE EmptyDict

FormatFrame(frame_data, fps, w, h) ==
    [timestamp_seconds |-> Ratio(frame_data.frame_number, fps)]
    @@ (IF "box_pixels" \in DOMAIN frame_data
        THEN [box_normalized |-> FormatBox(frame_data.box_pixels, w, h)]
        ELSE EmptyDict)
    @@ frame_data

FormatTrack(track, fps, w, h) ==
    (IF "fixed_box_pixels" \in DOMAIN track
     THEN [fixed_box_normalized |-> FormatBox(track.fixed_box_pixels, w, h)]
     ELSE EmptyDict)
    @@ (IF "dynamic_track" \in DOMAIN track
        THEN [dynamic_track |-> [n \in DOMAIN track.dynamic_track |->
                                    FormatFrame(track.dynamic_track[n], fps, w, h)]]
        ELSE EmptyDict)
    @@ track

FormatTracks(detections, track_type, fps, w, h) ==
    IF track_type \in DOMAIN detections
    THEN [n \in DOMAIN detections[track_type] |->
             FormatTrack(detections[track_type][n], fps, w, h)]
    ELSE <<>>

FormatScene(scene, fps, w, h) ==
    [start_time_seconds |-> Ratio(scene.start_frame, fps),
     end_time_seconds |-> Ratio(scene.end_frame, fps)]
    @@ (IF "detections" \in DOMAIN scene
        THEN [detections |->
                 [k \in DOMAIN scene.detections \cap {"face_tracks", "person_tracks"} |->
                     FormatTracks(scene.detections, k, fps, w, h)]
                 @@ scene.detections]
        ELSE EmptyDict)
    @@ scene

\* run: iterating over None raises TypeError
FormatterRun(data, v) ==
    IF data = None THEN TypeError
    ELSE LET fps == IF v.fps > 0 THEN v.fps ELSE DefaultFps
         IN  Some([n \in DOMAIN data.value |->
                      FormatScene(data.value[n], fps, v.width, v.height)])

-----------------------------------------------------------------------------
(* ReframerPipeline.run, stage by stage *)

NotLooked == [file |-> "not looked up"]

\* the stage files a project directory may hold before a run; the scenes file
\* may list a scene whose end_frame lies before its start_frame
StaleFiles ==
    [scenes : { Absent, Corrupt, Undecodable, JsonDump(<<>>), JsonDump(<<Scene(0, 1)>>),
                JsonDump(<<Scene(MaxFrame, 0)>>) },
     scouting : { Absent, Undecodable, JsonDump(EmptyDict),
                  JsonDump([faces |-> <<>>, persons |-> <<>>]),
                  JsonDump([faces |-> <<>>,
                            persons |-> Stamped(<<Found(Box(0, 0, 10, 10))>>, 0)]) },
     face_tracks : { Absent, Undecodable, JsonDump(<<>>),
                     JsonDump(<<[track_id |-> 1, scene_number |-> 1]>>) },
     person_tracks : { Absent, Undecodable, JsonDump(<<>>),
                       JsonDump(<<[track_id |-> 1, scene_number |-> 1]>>) }]

NoFiles == [k \in Keys |-> Absent]

\* the processor is not part of this specification
ProcessorOff ==
    /\ pc = "off"
    /\ sparse_detections = <<>>
    /\ detections_by_frame = <<>>
    /\ frame_pos = 1
    /\ track_pos = 1
    /\ active_tracks = <<>>
    /\ next_track_id = 0
    /\ total_sampled_frames = None
    /\ min_hits = None
    /\ raw_tracks = None
    /\ persistent_tracks = None
    /\ scene_start_frame = 0
    /\ scene_end_frame = 0
    /\ output_modes = None
    /\ final_tracks = None

InitPipeline ==
    /\ ProcessorOff
    /\ UnionOff
    /\ p_pc = "off"
    /\ cache_kind \in {"fs", "noop"}
    /\ cache \in (IF cache_kind = "fs" THEN StaleFiles ELSE {NoFiles})
    /\ video \in Videos
    /\ scene_list_data = None
    /\ scouting_data = None
    /\ face_tracks_data = None
    /\ person_tracks_data = None
    /\ final_formatted_data = None
    /\ run_result = None
    /\ final_results = None
    /\ lookups = [k \in Keys |-> NotLooked]
    /\ invoked = {}
    /\ computed = {}
    /\ save_calls = {}
    /\ processor_calls = <<>>
    /\ runs = 0
    /\ prev_run = None

\* what a finished run leaves to compare the next one with
Outcome ==
    [scene_list_data |-> scene_list_data, scouting_data |-> scouting_data,
     face_tracks_data |-> face_tracks_data, person_tracks_data |-> person_tracks_data,
     run_result |-> run_result, final_results |-> final_results,
     invoked |-> invoked, ended |-> p_pc]

\* main.py lines 82-88 / pipeline_server.py lines 69-75: a new ReframerPipeline
\* (__init__, _initialize_data_holders) on the same project directory
StartRun ==
    /\ p_pc \in {"off", "formatted", "raised"}
    /\ runs < MaxRuns
    /\ runs' = runs + 1
    /\ prev_run' = IF runs = 0 THEN None ELSE Outcome
    /\ scene_list_data' = None
    /\ scouting_data' = None
    /\ face_tracks_data' = None
    /\ person_tracks_data' = None
    /\ final_formatted_data' = None
    /\ run_result' = None
    /\ final_results' = None
    /\ lookups' = [k \in Keys |-> NotLooked]
    /\ invoked' = {}
    /\ computed' = {}
    /\ save_calls' = {}
    /\ processor_calls' = <<>>
    /\ p_pc' = "step1"
    /\ UNCHANGED <<cache_kind, cache, video>>
    /\ UNCHANGED procVars
    /\ UNCHANGED unionVars

\* the file a load finds under key (the no-op manager looks at none)
FileSeen(key) == IF cache_kind = "fs" THEN cache[key] ELSE Absent

\* cache_manager.load(path) raises inside a step: the exception leaves the step
\* and run
LoadFails(key) ==
    /\ lookups' = [lookups EXCEPT ![key] = FileSeen(key)]
    /\ run_result' = UnicodeDecodeError
    /\ p_pc' = "raised"
    /\ UNCHANGED <<cache_kind, cache, video, scene_list_data, scouting_data,
                   face_tracks_data, person_tracks_data, final_formatted_data,
                   final_results, invoked, computed, save_calls, processor_calls,
                   runs, prev_run>>

\* _step_1_detect_scenes
Step1 ==
    /\ p_pc = "step1"
    /\ IF LoadRaises(cache_kind, cache, "scenes")
       THEN LoadFails("scenes")
       ELSE /\ lookups' = [lookups EXCEPT !["scenes"] = FileSeen("scenes")]
            /\ LET cached_data == CacheLoad(cache_kind, cache, "scenes")
               IN  IF Truthy(cached_data)
                   THEN /\ scene_list_data' = cached_data
                        /\ UNCHANGED <<cache, invoked, computed, save_calls>>
                   ELSE /\ scene_list_data' = Some(SceneDetectorRun(video))
                        /\ invoked' = invoked \cup {"scenes"}
                        /\ computed' = computed \cup {"scenes"}
                        /\ save_calls' = save_calls \cup {"scenes"}
                        /\ \E outcome \in SaveOutcomes :
                             cache' = CacheSave(cache_kind, cache, "scenes",
                                                SceneDetectorRun(video), outcome)
            /\ p_pc' = "step2"
            /\ UNCHANGED <<cache_kind, video, scouting_data, face_tracks_data, person_tracks_data,
                           final_formatted_data, run_result, final_results, processor_calls,
                           runs, prev_run>>
    /\ UNCHANGED procVars
    /\ UNCHANGED unionVars

\* _step_2_run_scouting
Step2 ==
    /\ p_pc = "step2"
    /\ IF LoadRaises(cache_kind, cache, "scouting")
       THEN LoadFails("scouting")
       ELSE /\ lookups' = [lookups EXCEPT !["scouting"] = FileSeen("scouting")]
            /\ LET cached_data == CacheLoad(cache_kind, cache, "scouting")
               IN  IF Truthy(cached_data)
                   THEN /\ scouting_data' = cached_data
                        /\ p_pc' = "step3"
                        /\ UNCHANGED <<cache, invoked, computed, save_calls, run_result>>
                   ELSE IF ~Truthy(scene_list_data)
                   THEN /\ scouting_data' = Some([faces |-> <<>>, persons |-> <<>>])
                        /\ p_pc' = "step3"
                        /\ UNCHANGED <<cache, invoked, computed, save_calls, run_result>>
                   ELSE IF ScoutingRaises(video, scene_list_data.value)
                   THEN \* the ValueError of np.linspace leaves the step and run
                        /\ invoked' = invoked \cup {"scouting"}
                        /\ run_result' = ValueError
                        /\ p_pc' = "raised"
                        /\ UNCHANGED <<cache, scouting_data, computed, save_calls>>
                   ELSE LET all_scouting_results == RunScouting(video, scene_list_data.value)
                        IN  /\ scouting_data' = Some(all_scouting_results)
                            /\ invoked' = invoked \cup {"scouting"}
                            /\ computed' = computed \cup {"scouting"}
                            /\ save_calls' = save_calls \cup {"scouting"}
                            /\ \E outcome \in SaveOutcomes :
                                 cache' = CacheSave(cache_kind, cache, "scouting",
                                                    all_scouting_results, outcome)
                            /\ p_pc' = "step3"
                            /\ UNCHANGED run_result
            /\ UNCHANGED <<cache_kind, video, scene_list_data, face_tracks_data, person_tracks_data,
                           final_formatted_data, final_results, processor_calls,
                           runs, prev_run>>
    /\ UNCHANGED procVars
    /\ UNCHANGED unionVars

\* Mutant: the guard forgets the scene list.
Step3GuardScoutingOnly ==
    /\ p_pc = "step3"
    /\ IF ~Truthy(scouting_data)
       THEN /\ face_tracks_data' = Some(<<>>)
            /\ person_tracks_data' = Some(<<>>)
            /\ p_pc' = "return"
       ELSE /\ p_pc' = "faces"
            /\ UNCHANGED <<face_tracks_data, person_tracks_data>>
    /\ UNCHANGED <<cache_kind, cache, video, scene_list_data, scouting_data,
                   final_formatted_data, run_result, final_results, lookups, invoked,
                   computed, save_calls, processor_calls, runs, prev_run>>
    /\ UNCHANGED procVars
    /\ UNCHANGED unionVars

\* _step_3_process_tracks, lines 156-159
Step3Guard ==
    /\ p_pc = "step3"
    /\ IF ~Truthy(scouting_data) \/ ~Truthy(scene_list_data)
       THEN /\ face_tracks_data' = Some(<<>>)
            /\ person_tracks_data' = Some(<<>>)
            /\ p_pc' = "return"
       ELSE /\ p_pc' = "faces"
            /\ UNCHANGED <<face_tracks_data, person_tracks_data>>
    /\ UNCHANGED <<cache_kind, cache, video, scene_list_data, scouting_data,
                   final_formatted_data, run_result, final_results, lookups, invoked,
                   computed, save_calls, processor_calls, runs, prev_run>>
    /\ UNCHANGED procVars
    /\ UNCHANGED unionVars

\* _step_3_process_tracks, lines 162-168
Step3Faces ==
    /\ p_pc = "faces"
    /\ IF LoadRaises(cache_kind, cache, "face_tracks")
       THEN LoadFails("face_tracks")
       ELSE /\ lookups' = [lookups EXCEPT !["face_tracks"] = FileSeen("face_tracks")]
            /\ LET cached_faces == CacheLoad(cache_kind, cache, "face_tracks")
                   raw_faces == Get(scouting_data.value, "faces", <<>>)
                   scenes == scene_list_data.value
               IN  IF Truthy(cached_faces)
                   THEN /\ face_tracks_data' = cached_faces
                        /\ UNCHANGED <<cache, invoked, computed, save_calls, processor_calls>>
                   ELSE LET tracks == GenerateFaceTracks(raw_faces, scenes, ConfiguredModes, 1)
                        IN  /\ face_tracks_data' = Some(tracks)
                            /\ processor_calls' = processor_calls
                                 \o ProcessorCalls("face", raw_faces, scenes,
                                                   ConfiguredModes, 1, Len(scenes))
                            /\ invoked' = invoked \cup {"face_tracks"}
                            /\ computed' = computed \cup {"face_tracks"}
                            /\ save_calls' = save_calls \cup {"face_tracks"}
                            /\ \E outcome \in SaveOutcomes :
                                 cache' = CacheSave(cache_kind, cache, "face_tracks", tracks, outcome)
            /\ p_pc' = "persons"
            /\ UNCHANGED <<cache_kind, video, scene_list_data, scouting_data, person_tracks_data,
                           final_formatted_data, run_result, final_results, runs, prev_run>>
    /\ UNCHANGED procVars
    /\ UNCHANGED unionVars

\* _step_3_process_tracks, lines 171-177: on a miss _generate_tracks_for_type
\* calls person_track_processor.run for the first scene, and the call raises
Step3Persons ==
    /\ p_pc = "persons"
    /\ IF LoadRaises(cache_kind, cache, "person_tracks")
       THEN LoadFails("person_tracks")
       ELSE /\ lookups' = [lookups EXCEPT !["person_tracks"] = FileSeen("person_tracks")]
            /\ LET cached_persons == CacheLoad(cache_kind, cache, "person_tracks")
                   raw_persons == Get(scouting_data.value, "persons", <<>>)
                   scenes == scene_list_data.value
               IN  IF Truthy(cached_persons)
                   THEN /\ person_tracks_data' = cached_persons
                        /\ p_pc' = "return"
                        /\ UNCHANGED <<cache, invoked, computed, save_calls, processor_calls,
                                       run_result>>
                   ELSE IF scenes = <<>>
                   THEN \* the loop over the scenes makes no call
                        /\ person_tracks_data' = Some(<<>>)
                        /\ invoked' = invoked \cup {"person_tracks"}
                        /\ computed' = computed \cup {"person_tracks"}
                        /\ save_calls' = save_calls \cup {"person_tracks"}
                        /\ \E outcome \in SaveOutcomes :
                             cache' = CacheSave(cache_kind, cache, "person_tracks", <<>>, outcome)
                        /\ p_pc' = "return"
                        /\ UNCHANGED <<processor_calls, run_result>>
                   ELSE /\ ~BindsTo(RunCallArguments(DetectionsInScene(raw_persons, scenes[1]),
                                                     scenes[1], ConfiguredModes),
                                    PersonRunParameters)
                        /\ processor_calls' = processor_calls
                             \o ProcessorCalls("person", raw_persons, scenes, ConfiguredModes, 1, 1)
                        /\ invoked' = invoked \cup {"person_tracks"}
                        /\ run_result' = TypeError
                        /\ p_pc' = "raised"
                        /\ UNCHANGED <<cache, person_tracks_data, computed, save_calls>>
            /\ UNCHANGED <<cache_kind, video, scene_list_data, scouting_data,
                           face_tracks_data, final_formatted_data, final_results, runs, prev_run>>
    /\ UNCHANGED procVars
    /\ UNCHANGED unionVars

\* run, line 90: return self.final_formatted_data
Return ==
    /\ p_pc = "return"
    /\ run_result' = final_formatted_data
    /\ p_pc' = "returned"
    /\ UNCHANGED <<cache_kind, cache, video, scene_list_data, scouting_data,
                   face_tracks_data, person_tracks_data, final_formatted_data,
                   final_results, lookups, invoked, computed, save_calls,
                   processor_calls, runs, prev_run>>
    /\ UNCHANGED procVars
    /\ UNCHANGED unionVars

\* main.py lines 99-100 / pipeline_server.py lines 85-86
FormatOutput ==
    /\ p_pc = "returned"
    /\ final_results' = FormatterRun(run_result, video)
    /\ p_pc' = "formatted"
    /\ UNCHANGED <<cache_kind, cache, video, scene_list_data, scouting_data,
                   face_tracks_data, person_tracks_data, final_formatted_data, run_result,
                   lookups, invoked, computed, save_calls, processor_calls, runs, prev_run>>
    /\ UNCHANGED procVars
    /\ UNCHANGED unionVars

NextPipeline ==
    \/ StartRun
    \/ Step1
    \/ Step2
    \/ Step3Guard
    \/ Step3Faces
    \/ Step3Persons
    \/ Return
    \/ FormatOutput

SpecPipeline == InitPipeline /\ [][NextPipeline]_vars

-----------------------------------------------------------------------------
(* Properties of PersonTrackProcessorService.run *)

Last(s) == s[Len(s)]

FramesOf(dets) == { dets[n].frame_number : n \in DOMAIN dets }

\* the linker taken step by step and the linker as one function agree
LinkerAgrees ==
    (pc \in {"filter", "final"} \/ (pc = "done" /\ sparse_detections /= <<>>)) =>
        raw_tracks = LinkDetectionsIntoTracks(detections_by_frame)

\* C1 Dynamic-track coverage: when 'dynamic' is requested, every returned track
\* carries a dynamic_track with exactly one entry for each frame of the scene,
\* scene_start_frame first and ascending by one, hence e - s + 1 entries with
\* no frame twice and none missing.
C1_DynamicCoverage ==
    pc = "done" =>
        \A i \in DOMAIN final_tracks :
            "dynamic" \in output_modes =>
                LET dt == final_tracks[i].dynamic_track
                IN  /\ Len(dt) = scene_end_frame - scene_start_frame + 1
                    /\ \A n \in DOMAIN dt : dt[n].frame_number = scene_start_frame + n - 1

\* a dynamic track was built from a track with a gap between two measurements
\* and with scene frames before its first and after its last measurement
C1_Witness ==
    /\ pc = "done"
    /\ final_tracks /= <<>>
    /\ "dynamic" \in output_modes
    /\ \E i \in DOMAIN persistent_tracks :
         LET dets == persistent_tracks[i].detections
         IN  /\ Len(dets) >= 2
             /\ dets[2].frame_number - dets[1].frame_number >= 2
             /\ \/ scene_start_frame < dets[1].frame_number
                \/ Last(dets).frame_number < scene_end_frame
    /\ \E i \in DOMAIN persistent_tracks :
         LET dets == persistent_tracks[i].detections
         IN  /\ scene_start_frame < dets[1].frame_number
             /\ Last(dets).frame_number < scene_end_frame

\* C2 Interpolation boundary exactness: at the frame of every measured
\* detection of a surviving track, the dynamic_track holds an entry, and every
\* entry of that frame carries the measured x, y, width and height.
C2_MeasuredBoxesExact ==
    pc = "done" =>
        \A i \in DOMAIN final_tracks :
            "dynamic" \in output_modes =>
                LET dt == final_tracks[i].dynamic_track
                    dets == persistent_tracks[i].detections
                IN  \A m \in DOMAIN dets :
                        /\ \E n \in DOMAIN dt : dt[n].frame_number = dets[m].frame_number
                        /\ \A n \in DOMAIN dt :
                               dt[n].frame_number = dets[m].frame_number =>
                                   /\ dt[n].box_pixels.x = dets[m].box_pixels.x
                                   /\ dt[n].box_pixels.y = dets[m].box_pixels.y
                                   /\ dt[n].box_pixels.width = dets[m].box_pixels.width
                                   /\ dt[n].box_pixels.height = dets[m].box_pixels.height

\* a dynamic track over two segments, one of them longer than a frame, whose
\* three measured boxes differ
C2_Witness ==
    /\ pc = "done"
    /\ final_tracks /= <<>>
    /\ "dynamic" \in output_modes
    /\ \E i \in DOMAIN persistent_tracks :
         LET dets == persistent_tracks[i].detections
         IN  /\ Len(dets) >= 3
             /\ dets[1].box_pixels /= dets[2].box_pixels
             /\ dets[2].box_pixels /= dets[3].box_pixels
             /\ dets[3].frame_number - dets[1].frame_number >= 3

\* C3 Persistence gate: min_hits is the least integer not below
\* total_sampled_frames * min_persistence_ratio, and a linked track is among the
\* persistent tracks exactly if its number of detections is at least that
\* product (so k = min_hits is kept and k = min_hits - 1 is dropped).
C3_PersistenceGate ==
    (pc \in {"final", "done"} /\ sparse_detections /= <<>>) =>
        /\ RatioDen * min_hits >= RatioNum * total_sampled_frames
        /\ RatioDen * (min_hits - 1) < RatioNum * total_sampled_frames
        /\ \A t \in Range(raw_tracks) :
               (t \in Range(persistent_tracks))
                   <=> (RatioDen * Len(t.detections) >= RatioNum * total_sampled_frames)
        /\ \A t \in Range(raw_tracks) :
               /\ Len(t.detections) = min_hits => t \in Range(persistent_tracks)
               /\ Len(t.detections) = min_hits - 1 => t \notin Range(persistent_tracks)

\* one track with exactly min_hits detections is kept while another with
\* min_hits - 1 is dropped
C3_Witness ==
    /\ pc = "final"
    /\ \E t \in Range(raw_tracks) :
         Len(t.detections) = min_hits /\ t \in Range(persistent_tracks)
    /\ \E t \in Range(raw_tracks) :
         Len(t.detections) = min_hits - 1 /\ t \notin Range(persistent_tracks)

\* the center of det lies farther from the track's last_center than
\* last_size * distance_threshold_factor
Farther(track, det) ==
    FactorDen * FactorDen * DistSqTwice(track.last_center, CenterTwice(det.box_pixels))
        > 4 * FactorNum * FactorNum * track.last_size * track.last_size

\* C4 Gating threshold: no step of the linking pass appends to a track a
\* detection whose center is farther from the last_center the track had before
\* the step than its last_size times distance_threshold_factor.
C4_GateNeverCrossed ==
    [][ \A i \in DOMAIN active_tracks :
            Len(active_tracks'[i].detections) > Len(active_tracks[i].detections) =>
                ~Farther(active_tracks[i], Last(active_tracks'[i].detections)) ]_vars

\* every track of the frame has been tried; a detection outside the gate of one
\* track, which stayed unmatched, went to another track
C4_Witness ==
    /\ pc = "link"
    /\ track_pos > Len(active_tracks)
    /\ \E i, k \in DOMAIN active_tracks :
         /\ active_tracks[i].match_idx = NoMatch
         /\ active_tracks[k].match_idx /= NoMatch
         /\ Farther(active_tracks[i], CurrentDetections[active_tracks[k].match_idx + 1])

RECURSIVE CountAtFrame(_, _)
\* how many detections of frame f the tracks hold together
CountAtFrame(tracks, f) ==
    IF tracks = <<>> THEN 0
    ELSE Len(DetsAtFrame(tracks[1].detections, f)) + CountAtFrame(Tail(tracks), f)

\* C5 One-to-one matching per frame: within a frame no two tracks hold the same
\* match_idx, no track holds two detections of one frame, and the tracks
\* together hold no more detections of a frame than the frame has, so that no
\* detection is appended to two tracks.
C5_OneToOne ==
    pc \in {"link", "filter"} =>
        /\ \A i, k \in DOMAIN active_tracks :
               (i /= k /\ active_tracks[i].match_idx /= NoMatch) =>
                   active_tracks[i].match_idx /= active_tracks[k].match_idx
        /\ \A i \in DOMAIN active_tracks : \A f \in Frames :
               Len(DetsAtFrame(active_tracks[i].detections, f)) <= 1
        /\ \A f \in Frames :
               CountAtFrame(active_tracks, f) <= Len(DetsAtFrame(sparse_detections, f))

\* an earlier track has claimed a detection that also lies inside the gate of a
\* later track, and the later track, already tried, went without it
C5_Witness ==
    /\ pc = "link"
    /\ \E i, k \in DOMAIN active_tracks :
         /\ i < k
         /\ k < track_pos
         /\ active_tracks[i].match_idx /= NoMatch
         /\ active_tracks[k].match_idx = NoMatch
         /\ WithinGate(active_tracks[k], CurrentDetections[active_tracks[i].match_idx + 1])

\* four times the squared distance between the track's last center and the
\* center of the detection with 0-based index j
DistTo(track, dets, j) ==
    DistSqTwice(track.last_center, CenterTwice(dets[j + 1].box_pixels))

\* the detections of the frame that the track at position i may take: inside
\* its gate and not taken by a track processed before it in this frame
Available(tracks, i, dets) ==
    { j \in 0 .. Len(dets) - 1 :
        /\ WithinGate(tracks[i], dets[j + 1])
        /\ \A k \in 1 .. i - 1 : tracks[k].match_idx /= j }

\* C16 Deterministic greedy assignment: within a frame the tracks are tried one
\* after the other in the order of their creation, new tracks appear only when
\* all have been tried, and the step that tries a track changes that track
\* alone: it leaves the track as it is when no free detection lies inside its
\* gate, and otherwise appends the free in-gate detection closest to its last
\* center, the one of lowest index among equally close ones. Every step of the
\* linking pass is thus a function of the state before it.
C16_GreedyAssignment ==
    [][ /\ (pc = "link" /\ track_pos <= Len(active_tracks)) =>
            LET i == track_pos
                t == active_tracks[i]
                dets == CurrentDetections
                free == Available(active_tracks, i, dets)
            IN  /\ track_pos' = i + 1
                /\ frame_pos' = frame_pos
                /\ t.track_id = i - 1
                /\ Len(active_tracks') = Len(active_tracks)
                /\ \A k \in DOMAIN active_tracks : k /= i => active_tracks'[k] = active_tracks[k]
                /\ IF free = {} THEN active_tracks'[i] = t
                   ELSE LET best == CHOOSE j \in free :
                                        \A m \in free :
                                            \/ DistTo(t, dets, j) < DistTo(t, dets, m)
                                            \/ DistTo(t, dets, j) = DistTo(t, dets, m) /\ j <= m
                        IN  /\ active_tracks'[i].match_idx = best
                            /\ active_tracks'[i].detections = Append(t.detections, dets[best + 1])
        /\ (pc = "link" /\ Len(active_tracks') > Len(active_tracks)) =>
            /\ track_pos > Len(active_tracks)
            /\ frame_pos' = frame_pos + 1 \/ pc' = "filter" ]_vars

\* what the track was before it took its latest detection
BeforeLatest(track) ==
    LET prev == track.detections[Len(track.detections) - 1]
    IN  [last_center |-> CenterTwice(prev.box_pixels), last_size |-> DetSize(prev.box_pixels)]

\* the fallback: a track has taken a detection of the frame although another
\* one inside its gate was strictly closer, that one having been taken by a
\* track tried before it in this frame
C16_Witness ==
    /\ pc = "link"
    /\ \E i \in DOMAIN active_tracks : \E k \in 1 .. i - 1 :
         /\ i < track_pos
         /\ active_tracks[i].match_idx /= NoMatch
         /\ active_tracks[k].match_idx /= NoMatch
         /\ active_tracks[k].match_idx /= active_tracks[i].match_idx
         /\ Len(active_tracks[i].detections) >= 2
         /\ WithinGate(BeforeLatest(active_tracks[i]),
                       CurrentDetections[active_tracks[k].match_idx + 1])
         /\ DistTo(BeforeLatest(active_tracks[i]), CurrentDetections,
                   active_tracks[k].match_idx)
                < DistTo(BeforeLatest(active_tracks[i]), CurrentDetections,
                         active_tracks[i].match_idx)

\* a track has taken the second detection of a frame although the first one lay
\* inside its gate too and was free: the second one was closer
CloserNotFirst ==
    /\ pc = "link"
    /\ \E i \in DOMAIN active_tracks :
         /\ i < track_pos
         /\ active_tracks[i].match_idx = 1
         /\ Len(active_tracks[i].detections) >= 2
         /\ WithinGate(BeforeLatest(active_tracks[i]), CurrentDetections[1])
         /\ \A k \in DOMAIN active_tracks : active_tracks[k].match_idx /= 0
         /\ DistTo(BeforeLatest(active_tracks[i]), CurrentDetections, 1)
                < DistTo(BeforeLatest(active_tracks[i]), CurrentDetections, 0)

\* d times the exact linear blend of v0 and v1 at k / d
BlendTimes(d, k, v0, v1) == (d - k) * v0 + k * v1

\* val is a nearest integer of the exact blend
IsNearest(val, d, k, v0, v1) ==
    /\ 2 * (d * val - BlendTimes(d, k, v0, v1)) <= d
    /\ 2 * (BlendTimes(d, k, v0, v1) - d * val) <= d

\* val is int() of the blend computed in doubles: the exact blend with its
\* fraction dropped, and one less on the inputs where the double falls short
\* of the whole number that the exact blend is
IsTruncated(val, d, k, v0, v1) ==
    IF <<d, k, v0, v1>> \in FloatShortfall
    THEN d * (val + 1) = BlendTimes(d, k, v0, v1)
    ELSE /\ d * val <= BlendTimes(d, k, v0, v1)
         /\ BlendTimes(d, k, v0, v1) < d * (val + 1)

\* the entry of frame f in a dynamic track that starts at scene_start_frame
EntryAt(dt, f) == dt[f - scene_start_frame + 1].box_pixels

\* the frames f0 <= f < f1 of the m-th segment of a track's measurements
SegmentFrames(dets, m) == dets[m].frame_number .. (dets[m + 1].frame_number - 1)

\* C18 Interpolation value: between consecutive measured
\* detections at f0 < f1, for every frame f0 <= f < f1, each of x, y, width and
\* height of the emitted box is the linear blend rounded to the nearest
\* integer pixel.
C18_InterpolationRounded ==
    pc = "done" =>
        \A i \in DOMAIN final_tracks :
            "dynamic" \in output_modes =>
            LET dt == final_tracks[i].dynamic_track
                dets == persistent_tracks[i].detections
            IN  \A m \in 1 .. (Len(dets) - 1) :
                    \A f \in SegmentFrames(dets, m) :
                        LET d == dets[m + 1].frame_number - dets[m].frame_number
                            k == f - dets[m].frame_number
                            b0 == dets[m].box_pixels
                            b1 == dets[m + 1].box_pixels
                            b == EntryAt(dt, f)
                        IN  /\ IsNearest(b.x, d, k, b0.x, b1.x)
                            /\ IsNearest(b.y, d, k, b0.y, b1.y)
                            /\ IsNearest(b.width, d, k, b0.width, b1.width)
                            /\ IsNearest(b.height, d, k, b0.height, b1.height)

\* What lines 132-137 emit instead: each of x, y, width and height is
\* int((1-a)*v0 + a*v1) computed in doubles, the blend with its fraction
\* dropped, never rounded up, and one below the exact blend where the double
\* falls just short of a whole number.
InterpolationTruncated ==
    pc = "done" =>
        \A i \in DOMAIN final_tracks :
            "dynamic" \in output_modes =>
            LET dt == final_tracks[i].dynamic_track
                dets == persistent_tracks[i].detections
            IN  \A m \in 1 .. (Len(dets) - 1) :
                    \A f \in SegmentFrames(dets, m) :
                        LET d == dets[m + 1].frame_number - dets[m].frame_number
                            k == f - dets[m].frame_number
                            b0 == dets[m].box_pixels
                            b1 == dets[m + 1].box_pixels
                            b == EntryAt(dt, f)
                        IN  /\ IsTruncated(b.x, d, k, b0.x, b1.x)
                            /\ IsTruncated(b.y, d, k, b0.y, b1.y)
                            /\ IsTruncated(b.width, d, k, b0.width, b1.width)
                            /\ IsTruncated(b.height, d, k, b0.height, b1.height)

\* a dynamic track holds an interpolated entry whose exact blend lies more
\* than half a pixel above the emitted value, in x and in width
TruncationVisible ==
    /\ pc = "done"
    /\ final_tracks /= <<>>
    /\ "dynamic" \in output_modes
    /\ \E i \in DOMAIN final_tracks :
         LET dt == final_tracks[i].dynamic_track
             dets == persistent_tracks[i].detections
         IN  \E m \in 1 .. (Len(dets) - 1) :
                 \E f \in SegmentFrames(dets, m) :
                     LET d == dets[m + 1].frame_number - dets[m].frame_number
                         k == f - dets[m].frame_number
                         b0 == dets[m].box_pixels
                         b1 == dets[m + 1].box_pixels
                         b == EntryAt(dt, f)
                     IN  /\ 2 * (BlendTimes(d, k, b0.x, b1.x) - d * b.x) > d
                         /\ 2 * (BlendTimes(d, k, b0.width, b1.width) - d * b.width) > d

\* an interpolated x on which the double falls short of the exact blend
ShortfallReached ==
    /\ pc = "done"
    /\ final_tracks /= <<>>
    /\ "dynamic" \in output_modes
    /\ \E i \in DOMAIN final_tracks :
         LET dets == persistent_tracks[i].detections
         IN  \E m \in 1 .. (Len(dets) - 1) :
                 \E f \in SegmentFrames(dets, m) :
                     <<dets[m + 1].frame_number - dets[m].frame_number,
                       f - dets[m].frame_number,
                       dets[m].box_pixels.x, dets[m + 1].box_pixels.x>> \in FloatShortfall

\* C19 Extrapolation holds the boundary boxes: every frame of the scene before
\* the first measured frame has an entry in the dynamic_track and every such
\* entry carries the first measured box unchanged; every frame of the scene
\* after the last measured frame has an entry and every such entry carries the
\* last measured box unchanged.
C19_BoundaryBoxesHeld ==
    pc = "done" =>
        \A i \in DOMAIN final_tracks :
            "dynamic" \in output_modes =>
                LET dt == final_tracks[i].dynamic_track
                    dets == persistent_tracks[i].detections
                    first_det == dets[1]
                    last_det == Last(dets)
                IN  /\ \A f \in scene_start_frame .. (first_det.frame_number - 1) :
                           \E n \in DOMAIN dt : dt[n].frame_number = f
                    /\ \A f \in (last_det.frame_number + 1) .. scene_end_frame :
                           \E n \in DOMAIN dt : dt[n].frame_number = f
                    /\ \A n \in DOMAIN dt :
                           /\ dt[n].frame_number < first_det.frame_number =>
                                  /\ dt[n].box_pixels = first_det.box_pixels
                                  /\ dt[n].frame_number >= scene_start_frame
                           /\ dt[n].frame_number > last_det.frame_number =>
                                  /\ dt[n].box_pixels = last_det.box_pixels
                                  /\ dt[n].frame_number <= scene_end_frame

\* a dynamic track whose first measurement comes after the scene's start and
\* whose last one before its end, the two boxes being different; and one whose
\* first measurement lies two frames into the scene
C19_Witness ==
    /\ pc = "done"
    /\ final_tracks /= <<>>
    /\ "dynamic" \in output_modes
    /\ \E i \in DOMAIN final_tracks :
         LET dets == persistent_tracks[i].detections
         IN  /\ scene_start_frame < dets[1].frame_number
             /\ Last(dets).frame_number < scene_end_frame
             /\ dets[1].box_pixels /= Last(dets).box_pixels
    /\ \E i \in DOMAIN final_tracks :
         scene_start_frame + 2 <= persistent_tracks[i].detections[1].frame_number

\* the frame numbers the linking pass works through
LinkedFrames == { detections_by_frame[n].frame : n \in DOMAIN detections_by_frame }

\* C17 Tracks are never removed during linking: no step of the linking pass
\* shortens the list of active tracks or takes a detection away from a track;
\* a frame is left only after every track present has been tried in it, and the
\* next frame starts again at the first track; and what the pass returns is the
\* list of all tracks created, ids 0 .. next_track_id - 1.
C17_TracksNeverRemoved ==
    [][ pc = "link" =>
            /\ Len(active_tracks') >= Len(active_tracks)
            /\ \A k \in DOMAIN active_tracks :
                   /\ active_tracks'[k].track_id = active_tracks[k].track_id
                   /\ SubSeq(active_tracks'[k].detections, 1, Len(active_tracks[k].detections))
                          = active_tracks[k].detections
            /\ (frame_pos' /= frame_pos \/ pc' = "filter") =>
                   track_pos = Len(active_tracks) + 1
            /\ frame_pos' /= frame_pos => (frame_pos' = frame_pos + 1 /\ track_pos' = 1)
            /\ pc' = "filter" =>
                   /\ Len(raw_tracks') = next_track_id'
                   /\ \A k \in DOMAIN raw_tracks' :
                          /\ raw_tracks'[k].track_id = k - 1
                          /\ raw_tracks'[k].detections = active_tracks'[k].detections ]_vars

\* the pass has ended; one track went unmatched through a frame and took a
\* detection in a later one, and another one, created before the last frame,
\* never took a second detection and is returned all the same
C17_Witness ==
    /\ pc = "filter"
    /\ \E i \in DOMAIN raw_tracks :
         LET dets == raw_tracks[i].detections
         IN  /\ Len(dets) >= 2
             /\ \E f \in LinkedFrames : dets[1].frame_number < f /\ f < dets[2].frame_number
    /\ \E i \in DOMAIN raw_tracks :
         LET dets == raw_tracks[i].detections
         IN  /\ Len(dets) = 1
             /\ \E f \in LinkedFrames : dets[1].frame_number < f

\* the detections of a track are strictly increasing by frame_number
FramesIncrease(track) ==
    \A n \in 1 .. (Len(track.detections) - 1) :
        track.detections[n].frame_number < track.detections[n + 1].frame_number

TrackFramesIncrease ==
    /\ \A k \in DOMAIN active_tracks : FramesIncrease(active_tracks[k])
    /\ pc = "filter" => \A k \in DOMAIN raw_tracks : FramesIncrease(raw_tracks[k])

\* the step that ends a frame gives every track it creates exactly one
\* detection, of that frame, and no other track a detection
SpawnedAlone ==
    (pc = "link" /\ Len(active_tracks') > Len(active_tracks)) =>
        /\ \A k \in DOMAIN active_tracks :
               active_tracks'[k].detections = active_tracks[k].detections
        /\ \A k \in (Len(active_tracks) + 1) .. Len(active_tracks') :
               /\ Len(active_tracks'[k].detections) = 1
               /\ active_tracks'[k].detections[1].frame_number
                      = detections_by_frame[frame_pos].frame
        /\ \/ frame_pos' = frame_pos + 1
           \/ pc' = "filter"

\* C20 Track frame order: at every point of the linking pass, and in what it
\* returns, each track's detections are strictly increasing by frame_number,
\* no frame number twice; and a track created in a frame holds one detection
\* when the frame ends, the pass moving on to the next frame at once.
C20_TrackFrameOrder == []TrackFramesIncrease /\ [][SpawnedAlone]_vars

\* two tracks were created in the same frame from detections that lie within
\* each other's gate, and one of them took a detection in a later frame
C20_Witness ==
    /\ pc \in {"link", "filter"}
    /\ \E i, j \in DOMAIN active_tracks :
         LET di == active_tracks[i].detections
             dj == active_tracks[j].detections
         IN  /\ i /= j
             /\ di[1].frame_number = dj[1].frame_number
             /\ Len(di) >= 2
             /\ FactorDen * FactorDen * DistSqTwice(CenterTwice(di[1].box_pixels), CenterTwice(dj[1].box_pixels))
                    < 4 * FactorNum * FactorNum * DetSize(di[1].box_pixels) * DetSize(di[1].box_pixels)
             /\ FactorDen * FactorDen * DistSqTwice(CenterTwice(di[1].box_pixels), CenterTwice(dj[1].box_pixels))
                    < 4 * FactorNum * FactorNum * DetSize(dj[1].box_pixels) * DetSize(dj[1].box_pixels)

\* C21 Filter order and renumbering: the tracks that pass the persistence
\* filter keep the relative order in which the linker created them, each being
\* the linker's track unchanged; the output has one entry per surviving track,
\* in that order, numbered 1..n whatever ids the linker gave, and the i-th
\* entry is built from the i-th surviving track.
C21_OrderKeptAndRenumbered ==
    (pc = "done" /\ sparse_detections /= <<>>) =>
        /\ Len(final_tracks) = Len(persistent_tracks)
        /\ \A i, j \in DOMAIN persistent_tracks :
               i < j => persistent_tracks[i].track_id < persistent_tracks[j].track_id
        /\ \A i \in DOMAIN persistent_tracks :
               persistent_tracks[i] = raw_tracks[persistent_tracks[i].track_id + 1]
        /\ \A i \in DOMAIN final_tracks :
               LET dets == persistent_tracks[i].detections
               IN  /\ final_tracks[i].track_id = i
                   /\ "fixed" \in output_modes =>
                          final_tracks[i].fixed_box_pixels
                              = calculate_fixed_box(MeasuredBoxes(dets))
                   /\ "dynamic" \in output_modes =>
                          \A m \in DOMAIN dets :
                              EntryAt(final_tracks[i].dynamic_track, dets[m].frame_number)
                                  = dets[m].box_pixels

\* the first track the linker created was dropped by the filter, so that the
\* track output as number 1 is one the linker created later
C21_Witness ==
    /\ pc = "done"
    /\ final_tracks /= <<>>
    /\ persistent_tracks[1].track_id >= 1
    /\ final_tracks[1].track_id = 1

\* several tracks survive, with different measurements
SeveralSurvivors ==
    /\ pc = "done"
    /\ sparse_detections /= <<>>
    /\ Len(final_tracks) >= 2
    /\ persistent_tracks[1].detections /= persistent_tracks[2].detections

\* Inside one call of run, every detection of every track is one of the
\* detections the call was given, hence of the scene the call was made for.
TracksWithinCall ==
    \A k \in DOMAIN active_tracks :
        \A n \in DOMAIN active_tracks[k].detections :
            LET d == active_tracks[k].detections[n]
            IN  /\ d \in Range(sparse_detections)
                /\ scene_start_frame <= d.frame_number
                /\ d.frame_number <= scene_end_frame

\* how often the detection d occurs in the list dets
Occurrences(d, dets) == Cardinality({ n \in DOMAIN dets : dets[n] = d })

RECURSIVE OccurrencesInTracks(_, _)
\* how often d occurs in the detections of all tracks together
OccurrencesInTracks(d, tracks) ==
    IF tracks = <<>> THEN 0
    ELSE Occurrences(d, tracks[1].detections) + OccurrencesInTracks(d, Tail(tracks))

\* the detections of the frames before the one the pass is at
LinkedSoFar ==
    SelectSeq(sparse_detections,
              LAMBDA d : d.frame_number < detections_by_frame[frame_pos].frame)

\* C23 Linker partitions the detections: when the linking pass has ended,
\* every detection handed to it occurs in the tracks it returns exactly as
\* often as in the input (once, when the input holds it once) and the tracks
\* hold nothing else; the same is true, at the start of every frame, of the
\* detections of the frames already processed.
C23_LinkerPartitions ==
    /\ pc = "filter" =>
           /\ \A d \in Range(sparse_detections) :
                  OccurrencesInTracks(d, raw_tracks) = Occurrences(d, sparse_detections)
           /\ \A k \in DOMAIN raw_tracks :
                  /\ raw_tracks[k].detections /= <<>>
                  /\ Range(raw_tracks[k].detections) \subseteq Range(sparse_detections)
    /\ (pc = "link" /\ track_pos = 1) =>
           /\ \A d \in Range(LinkedSoFar) :
                  OccurrencesInTracks(d, active_tracks) = Occurrences(d, LinkedSoFar)
           /\ \A k \in DOMAIN active_tracks :
                  Range(active_tracks[k].detections) \subseteq Range(LinkedSoFar)

\* the pass has ended; in one frame a detection was appended to an existing
\* track while another one of that frame seeded a new track
C23_Witness ==
    /\ pc = "filter"
    /\ \E i, j \in DOMAIN raw_tracks :
         /\ i < j
         /\ Len(raw_tracks[i].detections) >= 2
         /\ raw_tracks[j].detections[1].frame_number
                = raw_tracks[i].detections[2].frame_number

\* the pass has ended on an input that holds the same detection twice
DuplicateLinked ==
    /\ pc = "filter"
    /\ \E d \in Range(sparse_detections) : Occurrences(d, sparse_detections) >= 2

\* the center of det lies strictly nearer to the center of prev than the width
\* of prev times distance_threshold_factor
StrictlyInside(prev, det) ==
    FactorDen * FactorDen
        * DistSqTwice(CenterTwice(prev.box_pixels), CenterTwice(det.box_pixels))
      < 4 * FactorNum * FactorNum * prev.box_pixels.width * prev.box_pixels.width

\* the center of det lies at exactly that distance
OnBoundary(prev, det) ==
    FactorDen * FactorDen
        * DistSqTwice(CenterTwice(prev.box_pixels), CenterTwice(det.box_pixels))
      = 4 * FactorNum * FactorNum * prev.box_pixels.width * prev.box_pixels.width

\* the indices, from 0, of the current frame's detections no track has taken
Untaken ==
    { j \in 0 .. (Len(CurrentDetections) - 1) :
        \A k \in DOMAIN active_tracks : active_tracks[k].match_idx /= j }

\* C24 Gating boundary is exclusive and width-based: a step of the linking
\* pass appends a detection to a track only if its center lies strictly nearer
\* to the center of the track's most recent detection than that detection's
\* width times distance_threshold_factor, so a detection at exactly that
\* distance is never appended; a track that finds an untaken detection
\* strictly inside that radius does take one; and when the frame ends, every
\* detection no track has taken seeds a new track.
C24_GateExclusive ==
    [][ pc = "link" =>
            /\ \A i \in DOMAIN active_tracks :
                   Len(active_tracks'[i].detections) > Len(active_tracks[i].detections) =>
                       /\ StrictlyInside(Last(active_tracks[i].detections),
                                         Last(active_tracks'[i].detections))
                       /\ ~OnBoundary(Last(active_tracks[i].detections),
                                      Last(active_tracks'[i].detections))
            /\ track_pos <= Len(active_tracks) =>
                   ((\E j \in Untaken :
                        StrictlyInside(Last(active_tracks[track_pos].detections),
                                       CurrentDetections[j + 1]))
                    => Len(active_tracks'[track_pos].detections)
                           = Len(active_tracks[track_pos].detections) + 1)
            /\ track_pos > Len(active_tracks) =>
                   /\ Len(active_tracks') = Len(active_tracks) + Cardinality(Untaken)
                   /\ \A j \in Untaken :
                          \E k \in (Len(active_tracks) + 1) .. Len(active_tracks') :
                              active_tracks'[k].detections = <<CurrentDetections[j + 1]>> ]_vars

\* a detection at exactly the gating distance of a track's most recent
\* detection was in the next frame the track saw; the track did not take it and
\* it seeded a track of its own
C24_Witness ==
    /\ pc \in {"link", "filter"}
    /\ \E i, j \in DOMAIN active_tracks :
         LET di == active_tracks[i].detections
             dj == active_tracks[j].detections
         IN  /\ i < j
             /\ \E n \in DOMAIN di :
                    /\ di[n].frame_number < dj[1].frame_number
                    /\ n < Len(di) => di[n + 1].frame_number > dj[1].frame_number
                    /\ OnBoundary(di[n], dj[1])
                    /\ \A f \in LinkedFrames :
                           ~(di[n].frame_number < f /\ f < dj[1].frame_number)

-----------------------------------------------------------------------------
(* Properties of ReframerPipeline.run *)

\* the output of the stage kept under key
Holder(key) ==
    CASE key = "scenes" -> scene_list_data
      [] key = "scouting" -> scouting_data
      [] key = "face_tracks" -> face_tracks_data
      [] key = "person_tracks" -> person_tracks_data

\* this run has looked the key up and found a readable entry
FoundEntry(key) == lookups[key].file = "json"

\* this run has looked the key up and found no entry, or none it could read
FoundNothing(key) == lookups[key].file \in {"absent", "corrupt"}

\* the stage under key has something to work on
UpstreamPresent(key) ==
    CASE key = "scenes" -> TRUE
      [] key = "scouting" -> Truthy(scene_list_data)
      [] OTHER -> Truthy(scene_list_data) /\ Truthy(scouting_data)

\* C6 Cache hit: for each stage, once the run has found an entry under the
\* stage's key, the stage output is the entry's value, unchanged, and the
\* stage's computation has not been run -- also when that value is empty.
C6_CacheHitAdopted ==
    \A k \in Keys :
        FoundEntry(k) =>
            /\ Holder(k) = Some(JsonLoad(lookups[k]))
            /\ k \notin invoked

\* C7 Cache miss: for each stage with something to work on, once the lookup
\* under the stage's key has missed, the stage's computation has run to
\* completion and save has been called with that key; the run has not raised.
C7_CacheMissComputesAndSaves ==
    \A k \in Keys :
        (FoundNothing(k) /\ UpstreamPresent(k)) =>
            /\ k \in computed
            /\ k \in save_calls
            /\ p_pc /= "raised"

EmptyScouting == [faces |-> <<>>, persons |-> <<>>]

\* Scouting found nothing usable in the cache and has no scene to sample
ScoutingShortCircuited ==
    /\ lookups["scouting"] /= NotLooked
    /\ lookups["scouting"] /= Undecodable
    /\ ~(FoundEntry("scouting") /\ JsonLoad(lookups["scouting"]) /= <<>>)
    /\ ~Truthy(scene_list_data)

\* Tracks has no scene or no scouting data to work on
TracksShortCircuited ==
    /\ p_pc \in {"return", "returned", "formatted"}
    /\ ~Truthy(scene_list_data) \/ ~Truthy(scouting_data)

NoProcessorCalled ==
    /\ processor_calls = <<>>
    /\ invoked \cap {"face_tracks", "person_tracks"} = {}

\* C8 as stated, Empty-upstream short-circuit: a stage without upstream input
\* yields an empty result without invoking detectors or the track processor,
\* and save is called with the stage's key for that empty result.
C8_ShortCircuitSaved ==
    /\ ScoutingShortCircuited =>
         /\ scouting_data = Some(EmptyScouting)
         /\ "scouting" \notin invoked
         /\ "scouting" \in save_calls
    /\ TracksShortCircuited =>
         /\ face_tracks_data = Some(<<>>)
         /\ person_tracks_data = Some(<<>>)
         /\ NoProcessorCalled
         /\ {"face_tracks", "person_tracks"} \subseteq save_calls

\* C8 as amended: a stage without upstream input (Scouting after its lookup
\* found nothing usable, Tracks before any lookup) yields an empty result
\* without invoking detectors or the track processor, and the empty result
\* stays in memory: save is not called with the stage's key and the stage's
\* file is left as it was.
C8_ShortCircuitInMemory ==
    /\ ScoutingShortCircuited =>
         /\ scouting_data = Some(EmptyScouting)
         /\ "scouting" \notin invoked
         /\ "scouting" \notin save_calls
         /\ cache_kind = "fs" => cache["scouting"] = lookups["scouting"]
    /\ TracksShortCircuited =>
         /\ face_tracks_data = Some(<<>>)
         /\ person_tracks_data = Some(<<>>)
         /\ NoProcessorCalled
         /\ save_calls \cap {"face_tracks", "person_tracks"} = {}
         /\ lookups["face_tracks"] = NotLooked
         /\ lookups["person_tracks"] = NotLooked

\* a run over a video without scenes has short-circuited both Scouting and
\* Tracks, with stage files for the tracks lying in the project directory
C8_Witness ==
    /\ p_pc = "return"
    /\ cache_kind = "fs"
    /\ ScoutingShortCircuited
    /\ TracksShortCircuited
    /\ cache["face_tracks"].file = "json"
    /\ "scenes" \in invoked

\* C9 Orchestrator idempotence: a run that follows another run on the same
\* project and cache ends the way the earlier run ended, with the same stage
\* outputs, the same result and the same formatted result, and it runs no stage
\* computation that the earlier run did not run.
C9_Idempotent ==
    (runs >= 2 /\ p_pc \in {"formatted", "raised"}) =>
        /\ p_pc = prev_run.ended
        /\ scene_list_data = prev_run.scene_list_data
        /\ scouting_data = prev_run.scouting_data
        /\ face_tracks_data = prev_run.face_tracks_data
        /\ person_tracks_data = prev_run.person_tracks_data
        /\ run_result = prev_run.run_result
        /\ final_results = prev_run.final_results
        /\ invoked \subseteq prev_run.invoked

\* a second run has ended having taken from the cache what the first run had
\* to compute: scenes and scouting data with person detections
C9_Witness ==
    /\ runs = 2
    /\ p_pc \in {"formatted", "raised"}
    /\ cache_kind = "fs"
    /\ {"scenes", "scouting"} \subseteq prev_run.invoked
    /\ invoked \cap {"scenes", "scouting"} = {}
    /\ scouting_data.value.persons /= <<>>

\* C10 Orchestrator output: what run returns is a sequence with one record per
\* scene, each with start_frame, end_frame and a detections map holding the
\* face_tracks and person_tracks lists of the Tracks stage.
C10_RunReturnsSceneRecords ==
    p_pc = "returned" =>
        /\ run_result.some
        /\ Len(run_result.value) = Len(scene_list_data.value)
        /\ \A n \in DOMAIN run_result.value :
               /\ run_result.value[n].start_frame = scene_list_data.value[n].start_frame
               /\ run_result.value[n].end_frame = scene_list_data.value[n].end_frame
               /\ DOMAIN run_result.value[n].detections = {"face_tracks", "person_tracks"}

\* the run works on empty inputs: no scene, or no detection of either subject
EmptyInputs ==
    /\ scene_list_data.some
    /\ scouting_data.some
    /\ \/ scene_list_data.value = <<>>
       \/ /\ Get(scouting_data.value, "faces", <<>>) = <<>>
          /\ Get(scouting_data.value, "persons", <<>>) = <<>>

\* C11 Empty inputs never raise: the track processor called without detections
\* returns an empty track list and has not grouped or linked anything; a run
\* without scenes ends with empty face and person track lists; and no run on
\* empty inputs, reading only cache files that can be read, ends in an exception.
C11_EmptyInputsNeverRaise ==
    /\ (pc = "done" /\ sparse_detections = <<>>) =>
         /\ final_tracks = <<>>
         /\ detections_by_frame = <<>>
         /\ active_tracks = <<>>
    /\ (p_pc \in {"return", "returned", "formatted"} /\ scene_list_data.value = <<>>) =>
         /\ face_tracks_data = Some(<<>>)
         /\ person_tracks_data = Some(<<>>)
    /\ (EmptyInputs /\ \A k \in Keys : lookups[k] /= Undecodable) => p_pc /= "raised"

\* C14 Cache failures never abort a stage: once a stage's load has met a file
\* that is corrupt or cannot be read, the stage has gone on as after a miss and
\* holds a result, and no error from the cache has ended the run; and once save
\* has been called for a stage, whether or not the write succeeded, the stage's
\* result is in place.
C14_CacheFailuresNeverAbort ==
    /\ \A k \in Keys :
           lookups[k].file \in {"corrupt", "undecodable"} =>
               /\ Holder(k).some
               /\ ~(p_pc = "raised" /\ run_result = UnicodeDecodeError)
    /\ \A k \in Keys : k \in save_calls => Holder(k).some

\* scene detection has been run by this run and PySceneDetect raised in it
SceneDetectionFailed == "scenes" \in invoked /\ video.detection_fails

\* scouting has been run by this run and one of the frames it sampled could not
\* be read
FrameReadFailed ==
    /\ "scouting" \in invoked
    /\ \E n \in DOMAIN scene_list_data.value :
         LET scene == scene_list_data.value[n]
         IN  Range(FramesToSample(scene, TotalSampledFrames(scene, video.fps)))
                 \cap video.unreadable /= {}

\* scouting has been run by this run with a detector that was never set up, and
\* has handed it a frame
DetectorFailed ==
    /\ "scouting" \in invoked
    /\ video.face_detector_fails \/ video.person_detector_fails
    /\ \E n \in DOMAIN scene_list_data.value :
         LET scene == scene_list_data.value[n]
         IN  Range(FramesToSample(scene, TotalSampledFrames(scene, video.fps)))
                 \ video.unreadable /= {}

\* C15 No stage silently swallows an unexpected internal error: once scene
\* detection has raised, a sampled frame could not be read, or a detector that
\* could not be set up was asked for a frame, the stage has ended run in an
\* error; the run goes on to no later stage and returns no result.
C15_FailuresReachCaller ==
    (SceneDetectionFailed \/ FrameReadFailed \/ DetectorFailed) => p_pc = "raised"

\* a run in which scene detection failed has returned, with the scene list and
\* the tracks of a video without scenes
SceneDetectionFailureSwallowed ==
    /\ p_pc = "returned"
    /\ SceneDetectionFailed
    /\ scene_list_data = Some(<<>>)
    /\ face_tracks_data = Some(<<>>)
    /\ person_tracks_data = Some(<<>>)
    /\ run_result = None

\* a run whose face detector was never set up has returned: scouting found no
\* face in a video that shows faces, and saved that as its result
DetectorFailureSwallowed ==
    /\ p_pc = "returned"
    /\ DetectorFailed
    /\ video.face_detector_fails
    /\ scouting_data.value.faces = <<>>
    /\ face_tracks_data = Some(<<>>)
    /\ "scouting" \in save_calls

\* a run in which a sampled frame with a person in it could not be read has
\* returned
FrameReadFailureSwallowed ==
    /\ p_pc = "returned"
    /\ FrameReadFailed
    /\ \E f \in video.unreadable : video.persons[f] /= <<>>

\* the detections of the subject type a processor works on
RawDetectionsOf(processor) ==
    Get(scouting_data.value, IF processor = "face" THEN "faces" ELSE "persons", <<>>)

\* C22 Tracks are scoped to one scene: every call of a track processor is made
\* for one scene of the scene list, with that scene's start_frame and
\* end_frame, and the detections it is given are exactly the detections of the
\* subject type whose frame_number lies in that range, in their order; so no
\* call sees a detection of another scene.
C22_ScopedToScene ==
    \A n \in DOMAIN processor_calls :
        LET call == processor_calls[n].arguments
            raw == RawDetectionsOf(processor_calls[n].processor)
        IN  /\ \E k \in DOMAIN scene_list_data.value :
                   /\ scene_list_data.value[k].start_frame = call[2]
                   /\ scene_list_data.value[k].end_frame = call[3]
            /\ call[1] = SelectSeq(raw, LAMBDA d : call[2] <= d.frame_number
                                                    /\ d.frame_number <= call[3])

\* a processor was called for the first of two scenes with some but not all
\* detections of its subject type, the others lying in the second scene; and a
\* processor was called for both scenes, each call being given the detections
\* of its own scene and none of the other's
C22_Witness ==
    /\ \E n \in DOMAIN processor_calls :
         LET call == processor_calls[n].arguments
             raw == RawDetectionsOf(processor_calls[n].processor)
         IN  /\ call[1] /= <<>>
             /\ Len(call[1]) < Len(raw)
             /\ \E d \in Range(raw) : d.frame_number > call[3]
    /\ \E m, n \in DOMAIN processor_calls :
         LET c1 == processor_calls[m].arguments
             c2 == processor_calls[n].arguments
         IN  /\ m < n
             /\ processor_calls[m].processor = processor_calls[n].processor
             /\ c1[3] < c2[2]
             /\ c1[1] /= <<>>
             /\ c2[1] /= <<>>
             /\ c1[1] \o c2[1] = RawDetectionsOf(processor_calls[m].processor)
             /\ \A d \in Range(c1[1]) : d.frame_number <= c1[3]
             /\ \A d \in Range(c2[1]) : d.frame_number >= c2[2]

-----------------------------------------------------------------------------
(* Properties of calculate_fixed_box *)

\* the rectangle outer covers the rectangle inner
Contains(outer, inner) ==
    /\ outer.x <= inner.x
    /\ outer.y <= inner.y
    /\ inner.x + inner.width <= outer.x + outer.width
    /\ inner.y + inner.height <= outer.y + outer.height

\* the rectangles obtained from r by moving one of its sides inwards by a pixel
Shrinks(r) ==
    { [r EXCEPT !.x = @ + 1, !.width = @ - 1], [r EXCEPT !.y = @ + 1, !.height = @ - 1],
      [r EXCEPT !.width = @ - 1], [r EXCEPT !.height = @ - 1] }

\* C12 Union correctness: for a non-empty list of boxes the returned rectangle
\* has x = min(x_i), y = min(y_i), width = max(x_i + w_i) - x and
\* height = max(y_i + h_i) - y: each of its four sides is the side of some input
\* box and no input box reaches beyond it. It contains every input box, and
\* pulling any one side inwards leaves some input box uncovered.
C12_UnionCorrect ==
    (u_pc = "returned" /\ union_boxes /= <<>>) =>
        LET r == union_result.value
            I == DOMAIN union_boxes
            b == union_boxes
        IN  /\ DOMAIN r = {"x", "y", "width", "height"}
            /\ \E i \in I : r.x = b[i].x
            /\ \A i \in I : r.x <= b[i].x
            /\ \E i \in I : r.y = b[i].y
            /\ \A i \in I : r.y <= b[i].y
            /\ \E i \in I : r.x + r.width = b[i].x + b[i].width
            /\ \A i \in I : r.x + r.width >= b[i].x + b[i].width
            /\ \E i \in I : r.y + r.height = b[i].y + b[i].height
            /\ \A i \in I : r.y + r.height >= b[i].y + b[i].height
            /\ \A i \in I : Contains(r, b[i])
            /\ \A c \in Shrinks(r) : \E i \in I : ~Contains(c, b[i])

\* the two overlapping squares of the documentation yield the square around
\* both, which is neither of them
C12_Witness ==
    /\ u_pc = "returned"
    /\ union_boxes = << Box(0, 0, 10, 10), Box(5, 5, 10, 10) >>
    /\ union_result = Some(Box(0, 0, 15, 15))

\* the error outcome named by the specification of the union operation
EmptyInputError == [raised |-> "EmptyInputError"]

\* C13 as stated, Union of an empty box sequence fails: the call with an empty
\* list ends in EmptyInputError and yields no value.
C13_EmptyUnionFails ==
    (u_pc = "returned" /\ union_boxes = <<>>) => union_result = EmptyInputError

\* C13 as amended: the call with an empty list raises nothing and returns the
\* empty dict {}, a value with none of the keys x, y, width, height.
C13_EmptyUnionIsEmptyDict ==
    (u_pc = "returned" /\ union_boxes = <<>>) =>
        /\ union_result.some
        /\ DOMAIN union_result.value = {}

\* calculate_fixed_box has been called with an empty list and has returned
C13_Witness ==
    /\ u_pc = "returned"
    /\ union_boxes = <<>>
    /\ union_result /= None

====
